---- MODULE Spec2Model ----
(***************************************************************************)
(* A model of book_translator.py (class BookTranslator): the segmenter,    *)
(* the table-of-contents mapping, the unit classifier and the project      *)
(* operations that work on the chapter files, the segment files and the    *)
(* translation log.                                                        *)
(*                                                                         *)
(* Texts are sequences of tokens.  A token is a block of n words separated *)
(* by single spaces, a space, a newline, a '<' or a '>'.  Two blocks that  *)
(* touch share a word (the last word of the first runs into the first word *)
(* of the second).                                                         *)
(***************************************************************************)
EXTENDS Integers, Sequences, FiniteSets, TLC

VARIABLES
    \* ---- _split_content_into_segments, one call ----
    content,             \* the argument
    paragraphs,          \* re.split(...) of the stripped content
    index,               \* loop position, 1-based (enumerate index + 1)
    segments,            \* the list being returned
    current_segment,     \* the buffer, a list of paragraphs
    current_word_count,  \* words in the buffer
    pcSeg,               \* "idle" | "start" | "loop" | "done"
    \* ---- _build_toc_mapping, one call ----
    tocBook,             \* the book's TOC sources: [contents, toc]
    toc_mapping,         \* href_file -> [title, is_chapter, level]
    tocPos,              \* position in the list being read, 1-based
    pcToc,               \* "idle" | "contents" | "fallback" | "done"
    \* ---- the decision of extract_chapters about one spine item ----
    clsUnit,             \* the spine item
    clsMapping,          \* the TOC mapping it is looked up in
    clsResult,           \* [accepted, title, chapter_type, toc_title]
    pcCls,               \* "idle" | "start" | "done"
    \* ---- validate_translation_completeness, one pair of segment files ----
    ro_words,            \* words of the translated file, header removed
    en_words,            \* words of the source segment
    is_final,            \* _is_final_segment(en_file)
    valResult,           \* what the pair adds to the result
    pcVal,               \* "idle" | "start" | "done"
    \* ---- _categorize_chapter_type, one call ----
    catTitle,            \* the argument
    catTest,             \* the test the call is at, "idle" or "done"
    catIndex,            \* position in the pattern list being tried, 1-based
    catResult,           \* the value returned, "" before the return
    \* ---- the segment file names of one split_chapter run ----
    nmNum,               \* the chapter number
    nmTitle,             \* the chapter's title in the log
    nmTotal,             \* len(segments)
    nmIndex,             \* segment_num of the loop
    nmWritten,           \* the names written, with what _is_final_segment says
    \* ---- one project directory ----
    epub,                \* the book in 00_en_full_epub: [contents, toc, spine]
    en_chapters,         \* 01_en_chapters: files [name, title, body]
    en_segments,         \* 02_en_segments: files [num, title, idx, cnt, text]
    ro_segments,         \* 03_ro_segments: files [num, title, idx, cnt, kind]
    ro_chapters,         \* 04_ro_chapters: files [num, title, parts]
    log,                 \* translation_log.json: [project, chapters, warnings]
    report,              \* what the last operation returned or raised
    edits,               \* translator saves so far
    swaps,               \* replacements of the book so far
    \* ---- the runs of split_chapter in progress ----
    runs,                \* chapter number -> [pc, log, result] of its run
    stops                \* runs stopped before their save so far

segVars == <<content, paragraphs, index, segments, current_segment,
             current_word_count, pcSeg>>

tocVars == <<tocBook, toc_mapping, tocPos, pcToc>>

clsVars == <<clsUnit, clsMapping, clsResult, pcCls>>

projVars == <<epub, en_chapters, en_segments, ro_segments, ro_chapters, log,
              report, edits, swaps>>

valVars == <<ro_words, en_words, is_final, valResult, pcVal>>

catVars == <<catTitle, catTest, catIndex, catResult>>

nameVars == <<nmNum, nmTitle, nmTotal, nmIndex, nmWritten>>

runVars == <<runs, stops>>

vars == <<segVars, tocVars, clsVars, valVars, catVars, projVars, nameVars,
          runVars>>

-----------------------------------------------------------------------------
(* Program constants *)

MAX_WORDS_PER_SEGMENT == 1500
MIN_WORDS_INTERMEDIATE == 800
SMALL_CONTENT_WORDS == 200
WORD_TOLERANCE == 5

\* RATIO_WARNING_LOW = 0.8, RATIO_WARNING_HIGH = 1.5 and
\* RATIO_ERROR_THRESHOLD = 0.5, in tenths
RATIO_WARNING_LOW_X10 == 8
RATIO_WARNING_HIGH_X10 == 15
RATIO_ERROR_THRESHOLD_X10 == 5

-----------------------------------------------------------------------------
(* Tokens and texts *)

W(n) == [t |-> "w", n |-> n]
NL == [t |-> "nl", n |-> 0]
SP == [t |-> "sp", n |-> 0]
LT == [t |-> "lt", n |-> 0]
GT == [t |-> "gt", n |-> 0]

IsSpace(tok) == tok.t \in {"nl", "sp"}

RECURSIVE SumSeq(_)
SumSeq(s) == IF s = <<>> THEN 0 ELSE Head(s) + SumSeq(Tail(s))

RECURSIVE Flatten(_)
Flatten(ss) == IF ss = <<>> THEN <<>> ELSE Head(ss) \o Flatten(Tail(ss))

Abs(x) == IF x < 0 THEN -x ELSE x

\* str.strip(): leading and trailing whitespace removed
RECURSIVE LStrip(_)
LStrip(s) == IF s # <<>> /\ IsSpace(Head(s)) THEN LStrip(Tail(s)) ELSE s

RECURSIVE RStrip(_)
RStrip(s) ==
    IF s # <<>> /\ IsSpace(s[Len(s)]) THEN RStrip(SubSeq(s, 1, Len(s) - 1)) ELSE s

Strip(s) == RStrip(LStrip(s))

\* re.sub(r'<[^>]+>', '', text): a '<', one or more characters other than
\* '>', and the first '>' after them; matches are found left to right.
GtAfter(s, i) == {j \in (i + 1)..Len(s) : s[j].t = "gt"}

FirstGt(s, i) == CHOOSE j \in GtAfter(s, i) : \A k \in GtAfter(s, i) : j <= k

IsTagStart(s, i) ==
    /\ s[i].t = "lt"
    /\ GtAfter(s, i) # {}
    /\ FirstGt(s, i) >= i + 2

RECURSIVE StripTagsFrom(_, _)
StripTagsFrom(s, i) ==
    IF i > Len(s) THEN <<>>
    ELSE IF IsTagStart(s, i) THEN StripTagsFrom(s, FirstGt(s, i) + 1)
    ELSE <<s[i]>> \o StripTagsFrom(s, i + 1)

\* len(re.findall(r'\b\w+\b', text)): the maximal runs of word characters
WordRuns(s) ==
    SumSeq([i \in 1..Len(s) |->
              IF s[i].t = "w"
              THEN s[i].n - (IF i > 1 /\ s[i - 1].t = "w" THEN 1 ELSE 0)
              ELSE 0])

count_words(text) ==
    IF text = <<>> THEN 0 ELSE WordRuns(StripTagsFrom(text, 1))

\* re.split(r'\n\s*\n', s): a separator starts at a newline and runs, through
\* whitespace only, to the last newline it can reach (\s* is greedy).
RECURSIVE WsRunEnd(_, _)
WsRunEnd(s, i) ==
    IF i < Len(s) /\ IsSpace(s[i + 1]) THEN WsRunEnd(s, i + 1) ELSE i

SepEnd(s, i) ==
    LET nls == {j \in i..WsRunEnd(s, i) : s[j].t = "nl"}
    IN  CHOOSE j \in nls : \A k \in nls : k <= j

RECURSIVE SplitFrom(_, _, _)
SplitFrom(s, i, start) ==
    IF i > Len(s) THEN <<SubSeq(s, start, Len(s))>>
    ELSE IF s[i].t = "nl" /\ SepEnd(s, i) > i
         THEN <<SubSeq(s, start, i - 1)>>
                \o SplitFrom(s, SepEnd(s, i) + 1, SepEnd(s, i) + 1)
         ELSE SplitFrom(s, i + 1, start)

SplitParagraphs(s) == SplitFrom(s, 1, 1)

\* '\n\n'.join(parts)
RECURSIVE JoinParagraphs(_)
JoinParagraphs(parts) ==
    IF parts = <<>> THEN <<>>
    ELSE IF Len(parts) = 1 THEN parts[1]
    ELSE parts[1] \o <<NL, NL>> \o JoinParagraphs(Tail(parts))

-----------------------------------------------------------------------------
(* _split_content_into_segments *)

\* the early return for small content: [content.strip()]
SmallContentNoSegment(c) == IF Strip(c) = <<>> THEN <<>> ELSE <<Strip(c)>>

SmallContentSegments(c) == <<Strip(c)>>

\* One pass of the loop body over paragraphs[i] (1-based), on the loop state
\* st = [segments, current_segment, current_word_count].
SegStepDropOnEmit(st, paras, i) ==
    LET paragraph == Strip(paras[i])
        word_count == count_words(paragraph)
        is_last_paragraph == (i = Len(paras))
        fits == st.current_word_count + word_count <= MAX_WORDS_PER_SEGMENT
        big == st.current_word_count >= MIN_WORDS_INTERMEDIATE
        st1 == IF fits \/ ~big
               THEN [st EXCEPT !.current_segment = Append(@, paragraph),
                               !.current_word_count = @ + word_count]
               ELSE [segments |-> st.segments,
                     current_segment |-> <<paragraph>>,
                     current_word_count |-> word_count]
    IN  IF paragraph = <<>> THEN st
        ELSE IF is_last_paragraph /\ st1.current_segment # <<>>
             THEN [st1 EXCEPT !.segments =
                                  Append(@, JoinParagraphs(st1.current_segment)),
                              !.current_segment = <<>>]
             ELSE st1

\* the loop body with other limits in place of MAX_WORDS_PER_SEGMENT and
\* MIN_WORDS_INTERMEDIATE
SegStepUsing(st, paras, i, max_words, min_words) ==
    LET paragraph == Strip(paras[i])
        word_count == count_words(paragraph)
        is_last_paragraph == (i = Len(paras))
        fits == st.current_word_count + word_count <= max_words
        big == st.current_word_count >= min_words
        st1 == IF fits \/ ~big
               THEN [st EXCEPT !.current_segment = Append(@, paragraph),
                               !.current_word_count = @ + word_count]
               ELSE [segments |->
                         IF st.current_segment # <<>>
                         THEN Append(st.segments,
                                     JoinParagraphs(st.current_segment))
                         ELSE st.segments,
                     current_segment |-> <<paragraph>>,
                     current_word_count |-> word_count]
    IN  IF paragraph = <<>> THEN st
        ELSE IF is_last_paragraph /\ st1.current_segment # <<>>
             THEN [st1 EXCEPT !.segments =
                                  Append(@, JoinParagraphs(st1.current_segment)),
                              !.current_segment = <<>>]
             ELSE st1

\* the buffer is never emitted before the last paragraph
SegStepNeverEmits(st, paras, i) ==
    SegStepUsing(st, paras, i, MAX_WORDS_PER_SEGMENT, 1000000)

\* the last paragraph always joins the buffer
SegStepMergesLast(st, paras, i) ==
    IF i = Len(paras)
    THEN SegStepUsing(st, paras, i, MAX_WORDS_PER_SEGMENT, 1000000)
    ELSE SegStepUsing(st, paras, i, MAX_WORDS_PER_SEGMENT,
                      MIN_WORDS_INTERMEDIATE)

\* a paragraph fits up to twice the limit
SegStepLooseMax(st, paras, i) ==
    SegStepUsing(st, paras, i, 2 * MAX_WORDS_PER_SEGMENT,
                 MIN_WORDS_INTERMEDIATE)

SegStep(st, paras, i) ==
    LET paragraph == Strip(paras[i])
        word_count == count_words(paragraph)
        is_last_paragraph == (i = Len(paras))
        fits == st.current_word_count + word_count <= MAX_WORDS_PER_SEGMENT
        big == st.current_word_count >= MIN_WORDS_INTERMEDIATE
        st1 == IF fits \/ ~big
               THEN [st EXCEPT !.current_segment = Append(@, paragraph),
                               !.current_word_count = @ + word_count]
               ELSE [segments |->
                         IF st.current_segment # <<>>
                         THEN Append(st.segments,
                                     JoinParagraphs(st.current_segment))
                         ELSE st.segments,
                     current_segment |-> <<paragraph>>,
                     current_word_count |-> word_count]
    IN  IF paragraph = <<>> THEN st
        ELSE IF is_last_paragraph /\ st1.current_segment # <<>>
             THEN [st1 EXCEPT !.segments =
                                  Append(@, JoinParagraphs(st1.current_segment)),
                              !.current_segment = <<>>]
             ELSE st1

\* the fallback after the loop
EnsureSegment(segs, c) ==
    IF segs = <<>> /\ Strip(c) # <<>> THEN <<Strip(c)>> ELSE segs

SegInitState ==
    [segments |-> <<>>, current_segment |-> <<>>, current_word_count |-> 0]

RECURSIVE SegLoop(_, _, _)
SegLoop(st, paras, i) ==
    IF i > Len(paras) THEN st ELSE SegLoop(SegStep(st, paras, i), paras, i + 1)

\* the whole function, as the project operations call it
split_content_into_segments(c) ==
    IF count_words(c) < SMALL_CONTENT_WORDS
    THEN SmallContentSegments(c)
    ELSE EnsureSegment(
             SegLoop(SegInitState, SplitParagraphs(Strip(c)), 1).segments, c)

-----------------------------------------------------------------------------
(* Titles.  A title is a string; what the code asks of a title (which of its
   marker words occur in the lower-cased title, whether it holds a digit,
   whether it is "chapter <number>") is tabulated for the titles in use. *)

\* the two pattern lists, in the order the loops try them
special_pattern_list ==
    <<"prologue", "epilogue", "preface", "introduction", "intermezzo",
      "interlude", "intermission", "aside", "appendix", "ars arcanum">>

metadata_pattern_list ==
    <<"title page", "copyright", "dedication", "acknowledgments", "map of",
      "about the author", "postscript", "newsletter", "broadsheet",
      "part one", "part two", "part three", "by brandon sanderson",
      "contents", "table of contents">>

special_patterns ==
    {special_pattern_list[i] : i \in 1..Len(special_pattern_list)}

metadata_patterns ==
    {metadata_pattern_list[i] : i \in 1..Len(metadata_pattern_list)}

Titles ==
    {"", "Prologue", "Chapter 1", "Chapter 2", "Chapter 12", "Part Two",
     "Part 2", "Broadsheet", "Copyright", "Chapter 1: Prologue",
     "Epilogue and Acknowledgments", "Chapter 5: Map of the City",
     "Part One: Chapter 3", "Chapter One", "Seaside", "Table of Contents",
     "The Final Empire"}

\* the marker words of the code that occur in title.lower()
TitleWords(title) ==
    CASE title = "Prologue" -> {"prologue"}
      [] title = "Chapter 1" -> {"chapter"}
      [] title = "Chapter 2" -> {"chapter"}
      [] title = "Chapter 12" -> {"chapter"}
      [] title = "Part Two" -> {"part", "part two"}
      [] title = "Part 2" -> {"part"}
      [] title = "Broadsheet" -> {"broadsheet"}
      [] title = "Copyright" -> {"copyright"}
      [] title = "Chapter 1: Prologue" -> {"chapter", "prologue"}
      [] title = "Epilogue and Acknowledgments" ->
             {"epilogue", "acknowledgments"}
      [] title = "Chapter 5: Map of the City" -> {"chapter", "map of"}
      [] title = "Part One: Chapter 3" -> {"part", "part one", "chapter"}
      [] title = "Chapter One" -> {"chapter"}
      [] title = "Seaside" -> {"aside"}
      [] title = "Table of Contents" -> {"contents", "table of contents"}
      [] OTHER -> {}

\* any(c.isdigit() for c in title)
HasDigit(title) ==
    title \in {"Chapter 1", "Chapter 2", "Chapter 12", "Part 2",
               "Chapter 1: Prologue", "Chapter 5: Map of the City",
               "Part One: Chapter 3"}

\* re.match(r'^chapter\s+\d+$', title.lower().strip())
IsChapterNumber(title) == title \in {"Chapter 1", "Chapter 2", "Chapter 12"}

Contains(title, word) == word \in TitleWords(title)

categorize_chapter_type(title) ==
    IF \E p \in special_patterns : Contains(title, p) THEN "special"
    ELSE IF IsChapterNumber(title) THEN "regular"
    ELSE IF Contains(title, "chapter") /\ HasDigit(title) THEN "regular"
    ELSE IF \E p \in metadata_patterns : Contains(title, p) THEN "metadata"
    ELSE "special"

\* the same function one test at a time: the call is at pattern i of the list
\* that test tries, and returns when result is set
CatAt(test, i) == [test |-> test, i |-> i, result |-> ""]

CatReturn(result) == [test |-> "done", i |-> 1, result |-> result]

\* the metadata patterns are tried before the numbered-chapter tests
categorize_step_metadata_first(title, test, i) ==
    CASE test = "special" ->
           IF Contains(title, special_pattern_list[i]) THEN CatReturn("special")
           ELSE IF i < Len(special_pattern_list) THEN CatAt("special", i + 1)
           ELSE CatAt("metadata", 1)
      [] test = "metadata" ->
           IF Contains(title, metadata_pattern_list[i])
           THEN CatReturn("metadata")
           ELSE IF i < Len(metadata_pattern_list) THEN CatAt("metadata", i + 1)
           ELSE CatAt("regex", 1)
      [] test = "regex" ->
           IF IsChapterNumber(title) THEN CatReturn("regular")
           ELSE CatAt("catchall", 1)
      [] test = "catchall" ->
           IF Contains(title, "chapter") /\ HasDigit(title)
           THEN CatReturn("regular")
           ELSE CatAt("default", 1)
      [] OTHER -> CatReturn("special")

categorize_step(title, test, i) ==
    CASE test = "special" ->
           IF Contains(title, special_pattern_list[i]) THEN CatReturn("special")
           ELSE IF i < Len(special_pattern_list) THEN CatAt("special", i + 1)
           ELSE CatAt("regex", 1)
      [] test = "regex" ->
           IF IsChapterNumber(title) THEN CatReturn("regular")
           ELSE CatAt("catchall", 1)
      [] test = "catchall" ->
           IF Contains(title, "chapter") /\ HasDigit(title)
           THEN CatReturn("regular")
           ELSE CatAt("metadata", 1)
      [] test = "metadata" ->
           IF Contains(title, metadata_pattern_list[i])
           THEN CatReturn("metadata")
           ELSE IF i < Len(metadata_pattern_list) THEN CatAt("metadata", i + 1)
           ELSE CatAt("default", 1)
      [] OTHER -> CatReturn("special")

is_story_chapter_from_toc_title(title) ==
    categorize_chapter_type(title) \in {"regular", "special"}

-----------------------------------------------------------------------------
(* _build_toc_mapping *)

\* An href is [file, frag]: "file#frag", or "file" when frag is "".
\* href.split('#')[0] if '#' in href else href
HrefFile(href) == href.file

\* the href is the empty string
HrefIsEmpty(href) == href.file = "" /\ href.frag = ""

TocEntry(title, level) ==
    [title |-> title,
     is_chapter |-> is_story_chapter_from_toc_title(title),
     level |-> level]

MapPut(m, k, v) == [x \in DOMAIN m \cup {k} |-> IF x = k THEN v ELSE m[x]]

EmptyMap == [x \in {} |-> 0]

\* "chapter X" is preferred over "part X" and broadsheet entries
PrefersNewTitle(existing_title, new_title) ==
    /\ Contains(new_title, "chapter") /\ HasDigit(new_title)
    /\ \/ Contains(existing_title, "part") /\ HasDigit(existing_title)
       \/ Contains(existing_title, "broadsheet")

\* one <a> of contents.xhtml: link = [href, text]
TocAddContents(m, link) ==
    LET href_file == HrefFile(link.href)
    IN  IF ~HrefIsEmpty(link.href) /\ link.text # ""
        THEN IF href_file \in DOMAIN m
             THEN IF PrefersNewTitle(m[href_file].title, link.text)
                  THEN MapPut(m, href_file, TocEntry(link.text, 0))
                  ELSE m
             ELSE MapPut(m, href_file, TocEntry(link.text, 0))
        ELSE m

RECURSIVE TocFoldContents(_, _)
TocFoldContents(m, links) ==
    IF links = <<>> THEN m
    ELSE TocFoldContents(TocAddContents(m, Head(links)), Tail(links))

\* process_toc_item: an item of book.toc is a link [kind "link", href, title]
\* or a pair [kind "section", has_href, href, title, children]
RECURSIVE TocFoldLinks(_, _, _)
TocFoldLinks(m, links, level) ==
    IF links = <<>> THEN m
    ELSE TocFoldLinks(MapPut(m, HrefFile(Head(links).href),
                             TocEntry(Head(links).title, level)),
                      Tail(links), level)

process_toc_item(m, item, level) ==
    IF item.kind = "link"
    THEN MapPut(m, HrefFile(item.href), TocEntry(item.title, level))
    ELSE LET m1 == IF item.has_href
                   THEN MapPut(m, HrefFile(item.href),
                               TocEntry(item.title, level))
                   ELSE m
         IN  TocFoldLinks(m1, item.children, level + 1)

RECURSIVE TocFoldFallback(_, _)
TocFoldFallback(m, items) ==
    IF items = <<>> THEN m
    ELSE TocFoldFallback(process_toc_item(m, Head(items), 0), Tail(items))

\* the whole function, as extract_chapters calls it
build_toc_mapping(book) ==
    LET m == TocFoldContents(EmptyMap, book.contents)
    IN  IF DOMAIN m = {} THEN TocFoldFallback(m, book.toc) ELSE m

-----------------------------------------------------------------------------
(* The decision of extract_chapters about one spine item.

   A unit is [name, chars, lines, words, has, heading, body]: the item's name,
   and of its cleaned text the length in characters, the number of non-blank
   lines, len(text.split()), the marker words of the code that occur in the
   lower-cased text, the chapter heading its first ten lines give ("" for
   none) and the text itself as the segmenter reads it. *)

MIN_UNIT_CHARS == 50
MIN_CONTENT_LINES == 10
MIN_CONTENT_WORDS == 200
DECENT_WORDS == 500
NARRATIVE_SCORE == 3

skip_patterns == {"nav", "toc", "cover", "title", "copyright", "contents", "index"}

chapter_indicators == {"chapter", "prologue", "epilogue", "interlude", "part"}

narrative_patterns == {"quote", "said", "looked", "walked", "felt", "thought", "knew"}

\* the skip words that occur in filename.lower()
NameWords(name) ==
    CASE name = "OEBPS/nav.xhtml" -> {"nav"}
      [] name = "OEBPS/cover.xhtml" -> {"cover"}
      [] name = "OEBPS/copyright.xhtml" -> {"copyright"}
      [] OTHER -> {}

\* original_name.split('/')[-1] if '/' in original_name else original_name
Basename(name) ==
    CASE name = "OEBPS/nav.xhtml" -> "nav.xhtml"
      [] name = "OEBPS/cover.xhtml" -> "cover.xhtml"
      [] name = "OEBPS/copyright.xhtml" -> "copyright.xhtml"
      [] name = "OEBPS/prologue.xhtml" -> "prologue.xhtml"
      [] name = "OEBPS/ch1.xhtml" -> "ch1.xhtml"
      [] name = "OEBPS/ch2.xhtml" -> "ch2.xhtml"
      [] OTHER -> name

is_likely_main_content_le(unit, toc_title) ==
    IF toc_title # "" /\ is_story_chapter_from_toc_title(toc_title) THEN TRUE
    ELSE IF NameWords(unit.name) \cap skip_patterns # {} THEN FALSE
    ELSE IF unit.lines < MIN_CONTENT_LINES THEN FALSE
    ELSE IF unit.words <= MIN_CONTENT_WORDS THEN FALSE
    ELSE \/ unit.words >= DECENT_WORDS
         \/ Cardinality(unit.has \cap narrative_patterns) >= NARRATIVE_SCORE
         \/ unit.has \cap chapter_indicators # {}

is_likely_main_content(unit, toc_title) ==
    IF toc_title # "" /\ is_story_chapter_from_toc_title(toc_title) THEN TRUE
    ELSE IF NameWords(unit.name) \cap skip_patterns # {} THEN FALSE
    ELSE IF unit.lines < MIN_CONTENT_LINES THEN FALSE
    ELSE IF unit.words < MIN_CONTENT_WORDS THEN FALSE
    ELSE \/ unit.words >= DECENT_WORDS
         \/ Cardinality(unit.has \cap narrative_patterns) >= NARRATIVE_SCORE
         \/ unit.has \cap chapter_indicators # {}

infer_chapter_type_from_content(unit) ==
    IF unit.has \cap {"prologue", "epilogue", "interlude", "intermezzo",
                      "ars arcanum"} # {}
    THEN "special"
    ELSE IF unit.has \cap {"dedication", "acknowledgment", "about the author"} # {}
    THEN "metadata"
    ELSE "regular"

\* f"Chapter {chapter_num}"
ChapterTitle(n) ==
    CASE n = 1 -> "Chapter 1"
      [] n = 2 -> "Chapter 2"
      [] n = 3 -> "Chapter 3"
      [] n = 4 -> "Chapter 4"
      [] OTHER -> "Chapter N"

\* _extract_chapter_title, without the leading "# "
extract_chapter_title(unit, chapter_num) ==
    IF unit.heading # "" THEN unit.heading ELSE ChapterTitle(chapter_num)

\* toc_mapping.get(original_name, {}), then by the basename when that is empty
TocLookupFullNameOnly(mapping, name) ==
    IF name \in DOMAIN mapping THEN mapping[name].title ELSE ""

TocLookup(mapping, name) ==
    IF name \in DOMAIN mapping THEN mapping[name].title
    ELSE IF Basename(name) \in DOMAIN mapping THEN mapping[Basename(name)].title
    ELSE ""

Rejected == [accepted |-> FALSE, title |-> "", chapter_type |-> "",
             toc_title |-> ""]

\* the body of the loop over the spine items, for the item that would get the
\* sequence number chapter_num if it is accepted
ExtractDecision(unit, mapping, chapter_num) ==
    LET toc_title == TocLookup(mapping, unit.name)
    IN  IF unit.chars < MIN_UNIT_CHARS THEN Rejected
        ELSE IF ~is_likely_main_content(unit, toc_title) THEN Rejected
        ELSE IF toc_title # ""
             THEN [accepted |-> TRUE, title |-> toc_title,
                   chapter_type |-> categorize_chapter_type(toc_title),
                   toc_title |-> toc_title]
             ELSE [accepted |-> TRUE,
                   title |-> extract_chapter_title(unit, chapter_num),
                   chapter_type |-> infer_chapter_type_from_content(unit),
                   toc_title |-> toc_title]

-----------------------------------------------------------------------------
(* The project directory: files and the translation log.

   A chapter file is [name, title, body], its name being [num, desc] for
   "{num:02d}_{desc}.md"; it holds "# {title}", an empty line and the body.
   A segment file is named by [num, title, idx, cnt] for
   "{num:02d}_{title}_seg{idx:02d}_of_{cnt:02d}.md" (with "_ro" before the
   extension in 03_ro_segments).  A source segment file holds a text; of a
   translated segment file the model keeps what the code can tell about its
   content, its kind:
     "empty"        nothing
     "blank"        whitespace only
     "placeholder"  a "<!-- ... -->" comment and nothing else
     "headed"       a "<!-- ... -->" comment followed by translated text
     "real"         translated text
     "unreadable"   translated text that open()/read() raises on (not UTF-8) *)

Kinds == {"empty", "blank", "placeholder", "headed", "real", "unreadable"}

\* open(..., encoding='utf-8') / f.read() raises
ReadRaises(kind) == kind = "unreadable"

\* content = f.read().strip(); content and not content.startswith('<!--')
IsTranslationText(kind) == kind \in {"real"}

\* the test of split_chapter and split_all_chapters, inside try/except: pass
ReadsAsTranslation(kind) == ~ReadRaises(kind) /\ IsTranslationText(kind)

SegName(f) == [num |-> f.num, title |-> f.title, idx |-> f.idx, cnt |-> f.cnt]

\* title.replace(' ', '_'); for the titles in use _create_descriptive_filename
\* gives the same string
Underscored(title) ==
    CASE title = "Prologue" -> "Prologue"
      [] title = "Chapter 1" -> "Chapter_1"
      [] title = "Chapter 2" -> "Chapter_2"
      [] title = "Chapter 3" -> "Chapter_3"
      [] title = "Chapter 4" -> "Chapter_4"
      [] title = "Chapter 12" -> "Chapter_12"
      [] title = "Part Two" -> "Part_Two"
      [] title = "Part 2" -> "Part_2"
      [] OTHER -> title

create_descriptive_filename(title, chapter_type) == Underscored(title)

\* the number n for which "Chapter_{n}_seg" occurs in the file name, 0 for none
ChapterNumberInName(title) ==
    CASE title = "Chapter_1" -> 1
      [] title = "Chapter_2" -> 2
      [] title = "Chapter_3" -> 3
      [] title = "Chapter_4" -> 4
      [] title = "Chapter_12" -> 12
      [] OTHER -> 0

\* lines[0].startswith('# Chapter')
HeadingStartsWithChapter(title) ==
    title \in {"Chapter 1", "Chapter 2", "Chapter 3", "Chapter 4", "Chapter 12"}

\* the heading line "# {title}" as text
HeadingText(title) ==
    IF title \in {"Chapter 1", "Chapter 2", "Chapter 3", "Chapter 4",
                  "Chapter 12", "Part Two", "Part 2"}
    THEN <<W(2)>>
    ELSE IF title = "" THEN <<>> ELSE <<W(1)>>

\* glob(f"{file_prefix}_*"): no title in use continues another one after "_"
MatchesPrefix(f, prefix) == f.num = prefix.num /\ f.title = prefix.title

\* glob(f"*Chapter_{chapter_number}_seg*_of_*.md")
MatchesChapterPattern(f, chapter_number) ==
    ChapterNumberInName(f.title) = chapter_number

\* sorted(...) of segment files with one title: by num, then idx, then cnt
NameBefore(a, b) ==
    \/ a.num < b.num
    \/ a.num = b.num /\ a.idx < b.idx
    \/ a.num = b.num /\ a.idx = b.idx /\ a.cnt < b.cnt
    \/ a.num = b.num /\ a.idx = b.idx /\ a.cnt = b.cnt /\ a.title = b.title

RECURSIVE SortedFiles(_)
SortedFiles(S) ==
    IF S = {} THEN <<>>
    ELSE LET first == CHOOSE a \in S : \A b \in S : NameBefore(a, b)
         IN  <<first>> \o SortedFiles(S \ {first})

EmptyLog ==
    [project |-> [total_chapters |-> 0, total_words_en |-> 0],
     chapters |-> EmptyMap,
     warnings |-> <<>>]

-----------------------------------------------------------------------------
(* extract_chapters *)

\* the record of an accepted chapter keeps the fields of the record it
\* replaces, status and segment counts included
ExtractAcceptKeepsRecord(acc, unit, d, n) ==
    LET filename == [num |-> n,
                     desc |-> create_descriptive_filename(d.title, d.chapter_type)]
        word_count == count_words(unit.body)
        fresh == [title |-> d.title,
                  filename |-> filename,
                  word_count |-> word_count,
                  status |-> "extracted",
                  chapter_type |-> d.chapter_type,
                  toc_title |-> d.toc_title,
                  original_file |-> unit.name]
        old == IF n \in DOMAIN acc.chapters THEN acc.chapters[n] ELSE fresh
    IN  [count |-> n,
         total_words |-> acc.total_words + word_count,
         files |-> {c \in acc.files : c.name # filename}
                     \cup {[name |-> filename, title |-> d.title,
                            body |-> unit.body]},
         chapters |-> MapPut(acc.chapters, n,
                             [k \in DOMAIN old |->
                                 IF k \in {"status", "segments", "segment_words"}
                                 THEN old[k] ELSE fresh[k]])]

\* the body of "if is_likely_content:", on acc = [count, total_words, files,
\* chapters]
ExtractAccept(acc, unit, d, n) ==
    LET filename == [num |-> n,
                     desc |-> create_descriptive_filename(d.title, d.chapter_type)]
        word_count == count_words(unit.body)
    IN  [count |-> n,
         total_words |-> acc.total_words + word_count,
         files |-> {c \in acc.files : c.name # filename}
                     \cup {[name |-> filename, title |-> d.title,
                            body |-> unit.body]},
         chapters |-> MapPut(acc.chapters, n,
                             [title |-> d.title,
                              filename |-> filename,
                              word_count |-> word_count,
                              status |-> "extracted",
                              chapter_type |-> d.chapter_type,
                              toc_title |-> d.toc_title,
                              original_file |-> unit.name])]

\* one spine item
ExtractItemCountsEveryUnit(acc, unit, mapping) ==
    LET n == acc.count + 1
        d == ExtractDecision(unit, mapping, n)
    IN  IF d.accepted THEN ExtractAccept(acc, unit, d, n)
        ELSE [acc EXCEPT !.count = n]

ExtractItem(acc, unit, mapping) ==
    LET n == acc.count + 1
        d == ExtractDecision(unit, mapping, n)
    IN  IF d.accepted THEN ExtractAccept(acc, unit, d, n) ELSE acc

RECURSIVE ExtractFold(_, _, _)
ExtractFold(acc, units, mapping) ==
    IF units = <<>> THEN acc
    ELSE ExtractFold(ExtractItem(acc, Head(units), mapping), Tail(units), mapping)

\* the whole operation on the log it loaded: [files, log]
extract_chapters(book, loaded) ==
    LET acc == ExtractFold([count |-> 0, total_words |-> 0, files |-> {},
                            chapters |-> loaded.chapters],
                           book.spine, build_toc_mapping(book))
    IN  [files |-> acc.files,
         log |-> [project |-> [total_chapters |-> acc.count,
                               total_words_en |-> acc.total_words],
                  chapters |-> acc.chapters,
                  warnings |-> loaded.warnings]]

-----------------------------------------------------------------------------
(* split_chapter, on st = [en, ro, log, outcome] and the chapter files *)

SegmentWords(segs) == SumSeq([i \in 1..Len(segs) |-> count_words(segs[i])])

\* the placeholder step of the loop over the segments, for one name
RoAfterWrite(ro, name) ==
    IF \E f \in ro : SegName(f) = name /\ ReadsAsTranslation(f.kind)
    THEN ro
    ELSE {f \in ro : SegName(f) # name}
           \cup {[num |-> name.num, title |-> name.title, idx |-> name.idx,
                  cnt |-> name.cnt, kind |-> "empty"]}

RECURSIVE RoAfterWrites(_, _)
RoAfterWrites(ro, todo) ==
    IF todo = <<>> THEN ro
    ELSE RoAfterWrites(RoAfterWrite(ro, Head(todo)), Tail(todo))

\* "Clear existing segments": the translated files that stay
\* no translated file is unlinked
RoAfterClearKeepsAll(ro, prefix) == ro

RoAfterClear(ro, prefix) ==
    LET matched == {f \in ro : MatchesPrefix(f, prefix)}
        has_chapter_translations ==
            \E f \in matched : ReadsAsTranslation(f.kind)
    IN  IF has_chapter_translations THEN ro ELSE ro \ matched

\* the warning text, as the values it is formatted from
MismatchWarning(key, original_words, total_words) ==
    [chapter |-> key, original |-> original_words, segments |-> total_words]

InSeq(x, s) == \E i \in 1..Len(s) : s[i] = x

\* the warning is appended without looking for it in the list
LogAfterSplitAppends(lg, key, total_segments, total_words, original_words) ==
    LET rec == MapPut(MapPut(MapPut(lg.chapters[key],
                                    "segments", total_segments),
                             "status", "segmented"),
                      "segment_words", total_words)
        warning == MismatchWarning(key, original_words, total_words)
    IN  [lg EXCEPT !.chapters = MapPut(@, key, rec),
                   !.warnings =
                       IF Abs(total_words - original_words) > WORD_TOLERANCE
                       THEN Append(@, warning)
                       ELSE @]

\* the segment count is added to the count the record already holds
LogAfterSplitAddsUp(lg, key, total_segments, total_words, original_words) ==
    LET before == IF "segments" \in DOMAIN lg.chapters[key]
                  THEN lg.chapters[key]["segments"] ELSE 0
        rec == MapPut(MapPut(MapPut(lg.chapters[key],
                                    "segments", before + total_segments),
                             "status", "segmented"),
                      "segment_words", total_words)
        warning == MismatchWarning(key, original_words, total_words)
    IN  [lg EXCEPT !.chapters = MapPut(@, key, rec),
                   !.warnings =
                       IF /\ Abs(total_words - original_words) > WORD_TOLERANCE
                          /\ ~InSeq(warning, @)
                       THEN Append(@, warning)
                       ELSE @]

LogAfterSplit(lg, key, total_segments, total_words, original_words) ==
    LET rec == MapPut(MapPut(MapPut(lg.chapters[key],
                                    "segments", total_segments),
                             "status", "segmented"),
                      "segment_words", total_words)
        warning == MismatchWarning(key, original_words, total_words)
    IN  [lg EXCEPT !.chapters = MapPut(@, key, rec),
                   !.warnings =
                       IF /\ Abs(total_words - original_words) > WORD_TOLERANCE
                          /\ ~InSeq(warning, @)
                       THEN Append(@, warning)
                       ELSE @]

\* no source segment file is unlinked
EnAfterClearKeepsAll(en, prefix) == en

\* "Always clear English segments for this chapter": the files that stay
EnAfterClear(en, prefix) == {f \in en : ~MatchesPrefix(f, prefix)}

\* split_chapter from "chapter_info =" on, for a key the log holds
split_known_chapter(st, chapter_files, key) ==
    LET chapter_info == st.log.chapters[key]
        found == {c \in chapter_files : c.name = chapter_info.filename}
    IN  IF found = {}
        THEN [st EXCEPT !.outcome = "file not found"]
        ELSE
        LET body == (CHOOSE c \in found : TRUE).body
            segs == split_content_into_segments(body)
            prefix == [num |-> key, title |-> Underscored(chapter_info.title)]
            total_segments == Len(segs)
            names == [i \in 1..total_segments |->
                         [num |-> prefix.num, title |-> prefix.title,
                          idx |-> i, cnt |-> total_segments]]
            en1 == EnAfterClear(st.en, prefix)
            en2 == en1 \cup {[num |-> prefix.num, title |-> prefix.title,
                              idx |-> i, cnt |-> total_segments,
                              text |-> segs[i]] : i \in 1..total_segments}
            ro2 == RoAfterWrites(RoAfterClear(st.ro, prefix), names)
        IN  [en |-> en2,
             ro |-> ro2,
             log |-> LogAfterSplit(st.log, key, total_segments,
                                   SegmentWords(segs), count_words(body)),
             outcome |-> "split"]

\* the source segment files are cleared before the key is looked up
split_chapter_clears_first(st, chapter_files, key) ==
    IF key \notin DOMAIN st.log.chapters
    THEN [st EXCEPT !.en = {}, !.outcome = "not found"]
    ELSE split_known_chapter(st, chapter_files, key)

split_chapter(st, chapter_files, key) ==
    IF key \notin DOMAIN st.log.chapters
    THEN [st EXCEPT !.outcome = "not found"]
    ELSE split_known_chapter(st, chapter_files, key)

\* The states a run of split_chapter leaves behind when it is stopped after
\* it began to clear the chapter's files and before save_log: some of the
\* source segment files unlinked; all of them and some of the translated
\* files unlinked; the first j source segments written (the last one
\* possibly still empty) with the placeholders of the first j or j - 1.
\* The log on disk is the one the run loaded.
split_chapter_stopped(st, chapter_files, key) ==
    IF key \notin DOMAIN st.log.chapters THEN {}
    ELSE
    LET chapter_info == st.log.chapters[key]
        found == {c \in chapter_files : c.name = chapter_info.filename}
    IN  IF found = {} THEN {}
        ELSE
        LET body == (CHOOSE c \in found : TRUE).body
            segs == split_content_into_segments(body)
            prefix == [num |-> key, title |-> Underscored(chapter_info.title)]
            total_segments == Len(segs)
            names == [i \in 1..total_segments |->
                         [num |-> prefix.num, title |-> prefix.title,
                          idx |-> i, cnt |-> total_segments]]
            en_file(i) == [num |-> prefix.num, title |-> prefix.title,
                           idx |-> i, cnt |-> total_segments, text |-> segs[i]]
            matched_en == {f \in st.en : MatchesPrefix(f, prefix)}
            matched_ro == {f \in st.ro : MatchesPrefix(f, prefix)}
            en1 == EnAfterClear(st.en, prefix)
            ro1 == RoAfterClear(st.ro, prefix)
            unlinking_en ==
                {[en |-> st.en \ D, ro |-> st.ro] :
                    D \in (SUBSET matched_en) \ {{}}}
            unlinking_ro ==
                IF ro1 = st.ro THEN {}
                ELSE {[en |-> en1, ro |-> st.ro \ R] : R \in SUBSET matched_ro}
            writing ==
                {[en |-> en1 \cup {en_file(i) : i \in 1..j},
                  ro |-> RoAfterWrites(ro1, SubSeq(names, 1, jr))] :
                    j \in 0..total_segments, jr \in 0..total_segments}
            truncated ==
                {[en |-> en1 \cup {en_file(i) : i \in 1..(j - 1)}
                             \cup {[en_file(j) EXCEPT !.text = <<>>]},
                  ro |-> RoAfterWrites(ro1, SubSeq(names, 1, j - 1))] :
                    j \in 1..total_segments}
            in_order == {p \in writing :
                           \E j \in 0..total_segments :
                               /\ p.en = en1 \cup {en_file(i) : i \in 1..j}
                               /\ \E jr \in {j - 1, j} \cap 0..total_segments :
                                     p.ro = RoAfterWrites(ro1,
                                                          SubSeq(names, 1, jr))}
        IN  {[en |-> p.en, ro |-> p.ro, log |-> st.log, outcome |-> "stopped"] :
                p \in unlinking_en \cup unlinking_ro \cup in_order
                         \cup truncated}

-----------------------------------------------------------------------------
(* split_all_chapters *)

RECURSIVE SplitEach(_, _, _)
SplitEach(st, chapter_files, ids) ==
    IF ids = {} THEN st
    ELSE LET first == CHOOSE n \in ids : \A m \in ids : n <= m
         IN  SplitEach(split_chapter(st, chapter_files, first), chapter_files,
                       ids \ {first})

split_all_chapters(st, chapter_files) ==
    IF chapter_files = {}
    THEN [st EXCEPT !.outcome = "no chapter files"]
    ELSE LET has_translations == \E f \in st.ro : ReadsAsTranslation(f.kind)
             cleared == [en |-> {},
                         ro |-> IF has_translations THEN st.ro ELSE {},
                         log |-> st.log,
                         outcome |-> "split all"]
             ids == {c.name.num : c \in chapter_files}
         IN  [SplitEach(cleared, chapter_files, ids)
                  EXCEPT !.outcome = "split all"]

-----------------------------------------------------------------------------
(* validate_segment_integrity, validate_translation_completeness and
   combine_chapter: what they read, and what they return or raise *)

NoReport == [op |-> "none", n |-> 0, outcome |-> "", files |-> {}]

RECURSIVE JoinTexts(_)
JoinTexts(fs) ==
    IF fs = <<>> THEN <<>>
    ELSE IF Len(fs) = 1 THEN fs[1].text
    ELSE fs[1].text \o <<NL, NL>> \o JoinTexts(Tail(fs))

validate_segment_integrity(lg, chapter_files, en, chapter_number) ==
    LET rep(outcome, files) ==
            [op |-> "validate_segment_integrity", n |-> chapter_number,
             outcome |-> outcome, files |-> files]
    IN
    IF chapter_number \notin DOMAIN lg.chapters THEN rep("not found", {})
    ELSE
    LET chapter_info == lg.chapters[chapter_number]
        found == {c \in chapter_files : c.name = chapter_info.filename}
    IN  IF found = {} THEN rep("original not found", {})
        ELSE
        LET original == CHOOSE c \in found : TRUE
            original_content ==
                IF HeadingStartsWithChapter(original.title)
                THEN original.body
                ELSE HeadingText(original.title) \o <<NL, NL>> \o original.body
            original_words == count_words(original_content)
            segment_files == {f \in en : MatchesChapterPattern(f, chapter_number)}
            sorted == SortedFiles(segment_files)
            total_segment_words ==
                SumSeq([i \in 1..Len(sorted) |-> count_words(sorted[i].text)])
            mismatch ==
                Abs(original_words - total_segment_words) > WORD_TOLERANCE
            combination_error ==
                count_words(JoinTexts(sorted)) # total_segment_words
        IN  IF segment_files = {} THEN rep("no segments", {})
            ELSE rep(IF mismatch \/ combination_error THEN "warnings" ELSE "valid",
                     {SegName(f) : f \in segment_files})

\* ratio = ro_words / en_words if en_words > 0 else 0, as a fraction; for
\* word counts below 10^15 the float quotient compares with 0.5, 0.8 and 3.0
\* as the fraction does
Ratio(ro, en) ==
    IF en > 0 THEN [num |-> ro, den |-> en] ELSE [num |-> 0, den |-> 1]

\* ratio < tenths / 10 and ratio > tenths / 10
RatioBelow(ratio, tenths) == 10 * ratio.num < tenths * ratio.den

RatioAbove(ratio, tenths) == 10 * ratio.num > tenths * ratio.den

NoFinding == [translated |-> FALSE, error |-> "", warning |-> "", valid |-> TRUE]

\* the final segment is exempt from the error as well
segment_findings_final_exempt(ro, en, final) ==
    IF ro > 0
    THEN LET ratio == Ratio(ro, en)
         IN  IF RatioBelow(ratio, RATIO_ERROR_THRESHOLD_X10) /\ ~final
             THEN [NoFinding EXCEPT !.translated = TRUE,
                                    !.error = "too short",
                                    !.valid = FALSE]
             ELSE IF RatioBelow(ratio, RATIO_WARNING_LOW_X10) /\ ~final
             THEN [NoFinding EXCEPT !.translated = TRUE,
                                    !.warning = "shorter than expected"]
             ELSE IF RatioAbove(ratio, RATIO_WARNING_HIGH_X10 * 2)
             THEN [NoFinding EXCEPT !.translated = TRUE,
                                    !.warning = "much longer than expected"]
             ELSE [NoFinding EXCEPT !.translated = TRUE]
    ELSE [NoFinding EXCEPT !.warning = "Not translated"]

\* the body of the loop over the source segments from "ro_words =" on, for
\* one pair: what it adds to result, and whether result stays valid
segment_findings(ro, en, final) ==
    IF ro > 0
    THEN LET ratio == Ratio(ro, en)
         IN  IF RatioBelow(ratio, RATIO_ERROR_THRESHOLD_X10)
             THEN [NoFinding EXCEPT !.translated = TRUE,
                                    !.error = "too short",
                                    !.valid = FALSE]
             ELSE IF RatioBelow(ratio, RATIO_WARNING_LOW_X10) /\ ~final
             THEN [NoFinding EXCEPT !.translated = TRUE,
                                    !.warning = "shorter than expected"]
             ELSE IF RatioAbove(ratio, RATIO_WARNING_HIGH_X10 * 2)
             THEN [NoFinding EXCEPT !.translated = TRUE,
                                    !.warning = "much longer than expected"]
             ELSE [NoFinding EXCEPT !.translated = TRUE]
    ELSE [NoFinding EXCEPT !.warning = "Not translated"]

\* ro_words > 0 once a leading "<!-- ... -->" header is removed
CountsAsTranslated(kind) == kind \in {"real", "headed"}

validate_translation_completeness(en, ro, chapter_number) ==
    LET en_files == {f \in en : MatchesChapterPattern(f, chapter_number)}
        ro_files == {f \in ro : MatchesChapterPattern(f, chapter_number)}
        paired == {f \in ro_files : \E e \in en_files : SegName(e) = SegName(f)}
        missing == {e \in en_files : \A f \in ro_files : SegName(f) # SegName(e)}
        rep(outcome) ==
            [op |-> "validate_translation_completeness", n |-> chapter_number,
             outcome |-> outcome,
             files |-> {SegName(f) : f \in en_files \cup paired},
             translated |-> Cardinality({f \in paired : CountsAsTranslated(f.kind)})]
    IN  IF en_files = {} THEN rep("no segments")
        ELSE IF \E f \in paired : ReadRaises(f.kind) THEN rep("validation error")
        ELSE IF missing # {} THEN rep("missing files")
        ELSE rep("checked")

\* content left of a translated file once its header is removed is empty
IsMissingTranslation(kind) == kind \in {"empty", "blank", "placeholder"}

\* [files, report]: the combined-chapter files after the call, and the report
combine_chapter(ro, combined, chapter_number) ==
    LET ro_files == {f \in ro : MatchesChapterPattern(f, chapter_number)}
        sorted == SortedFiles(ro_files)
        rep(outcome) ==
            [op |-> "combine_chapter", n |-> chapter_number,
             outcome |-> outcome, files |-> {SegName(f) : f \in ro_files}]
    IN  IF ro_files = {}
        THEN [files |-> combined, report |-> rep("no segments")]
        ELSE IF \E f \in ro_files : ReadRaises(f.kind)
        THEN [files |-> combined, report |-> rep("read error")]
        ELSE IF \A f \in ro_files : IsMissingTranslation(f.kind)
        THEN [files |-> combined, report |-> rep("no translations")]
        ELSE LET out == [num |-> sorted[1].num, title |-> sorted[1].title,
                         parts |-> [i \in 1..Len(sorted) |->
                                       [name |-> SegName(sorted[i]),
                                        kind |-> sorted[i].kind]]]
             IN  [files |-> {c \in combined :
                                ~(c.num = out.num /\ c.title = out.title)}
                              \cup {out},
                  report |-> rep("combined")]

-----------------------------------------------------------------------------
(* The segmenter run one step at a time *)

MaxParas == 3

WordSizes == {12, 100, 700, 900, 1600}
TagSizes == {700, 900}

ParaShapes ==
    {<<W(n)>> : n \in WordSizes}
      \cup {<<W(n), LT>> : n \in TagSizes}
      \cup {<<W(n), GT>> : n \in TagSizes}
      \cup {<<W(100), NL, W(100)>>}

Separators == {<<NL, NL>>, <<NL, SP, NL>>, <<NL, NL, NL>>}

Paddings == {<<<<>>, <<>>>>, <<<<SP, NL>>, <<NL>>>>}

ParaLists == UNION {[1..k -> ParaShapes] : k \in 0..MaxParas}

RECURSIVE JoinWith(_, _)
JoinWith(parts, sep) ==
    IF parts = <<>> THEN <<>>
    ELSE IF Len(parts) = 1 THEN parts[1]
    ELSE parts[1] \o sep \o JoinWith(Tail(parts), sep)

Texts ==
    {pad[1] \o JoinWith(ps, sep) \o pad[2] :
        ps \in ParaLists, sep \in Separators, pad \in Paddings}

SegIdle ==
    /\ content = <<>>
    /\ paragraphs = <<>>
    /\ index = 1
    /\ segments = <<>>
    /\ current_segment = <<>>
    /\ current_word_count = 0
    /\ pcSeg = "idle"

SegInit ==
    /\ content \in Texts
    /\ paragraphs = <<>>
    /\ index = 1
    /\ segments = <<>>
    /\ current_segment = <<>>
    /\ current_word_count = 0
    /\ pcSeg = "start"

\* total_words < 200: return [content.strip()]
SegSmall ==
    /\ pcSeg = "start"
    /\ count_words(content) < SMALL_CONTENT_WORDS
    /\ segments' = SmallContentSegments(content)
    /\ pcSeg' = "done"
    /\ UNCHANGED <<content, paragraphs, index, current_segment,
                   current_word_count>>
    /\ UNCHANGED <<tocVars, clsVars, valVars, projVars,
                   catVars, nameVars, runVars>>

\* otherwise: split the stripped content into paragraphs and enter the loop
SegBegin ==
    /\ pcSeg = "start"
    /\ count_words(content) >= SMALL_CONTENT_WORDS
    /\ paragraphs' = SplitParagraphs(Strip(content))
    /\ index' = 1
    /\ pcSeg' = "loop"
    /\ UNCHANGED <<content, segments, current_segment, current_word_count>>
    /\ UNCHANGED <<tocVars, clsVars, valVars, projVars,
                   catVars, nameVars, runVars>>

\* one iteration of the for loop
SegParagraph ==
    /\ pcSeg = "loop"
    /\ index <= Len(paragraphs)
    /\ LET st == SegStep([segments |-> segments,
                          current_segment |-> current_segment,
                          current_word_count |-> current_word_count],
                         paragraphs, index)
       IN  /\ segments' = st.segments
           /\ current_segment' = st.current_segment
           /\ current_word_count' = st.current_word_count
    /\ index' = index + 1
    /\ UNCHANGED <<content, paragraphs, pcSeg>>
    /\ UNCHANGED <<tocVars, clsVars, valVars, projVars,
                   catVars, nameVars, runVars>>

\* after the loop: the fallback, and the return
SegReturn ==
    /\ pcSeg = "loop"
    /\ index > Len(paragraphs)
    /\ segments' = EnsureSegment(segments, content)
    /\ pcSeg' = "done"
    /\ UNCHANGED <<content, paragraphs, index, current_segment,
                   current_word_count>>
    /\ UNCHANGED <<tocVars, clsVars, valVars, projVars,
                   catVars, nameVars, runVars>>

SegNext == SegSmall \/ SegBegin \/ SegParagraph \/ SegReturn

-----------------------------------------------------------------------------
(* _build_toc_mapping run one entry at a time *)

MaxLinks == 3
MaxTocItems == 2

TocFiles == {"ch1.xhtml", "ch12.xhtml"}

TocTitles == {"Prologue", "Chapter 12", "Part Two", "Part 2", "Broadsheet",
              "Copyright"}

Href(file, frag) == [file |-> file, frag |-> frag]

ContentsLinks ==
    {[href |-> Href(f, ""), text |-> t] : f \in TocFiles, t \in TocTitles}
      \cup {[href |-> Href("ch12.xhtml", "c12"), text |-> "Chapter 12"],
            [href |-> Href("ch1.xhtml", ""), text |-> ""],
            [href |-> Href("", ""), text |-> "Prologue"]}

TocLinks ==
    {[kind |-> "link", href |-> Href(f, ""), title |-> t] :
        f \in TocFiles, t \in TocTitles}
      \cup {[kind |-> "link", href |-> Href("ch12.xhtml", "c12"),
             title |-> "Chapter 12"]}

TocSections ==
    {[kind |-> "section", has_href |-> h, href |-> Href("ch12.xhtml", ""),
      title |-> "Part Two", children |-> <<c>>] :
        h \in BOOLEAN,
        c \in {l \in TocLinks : l.title \in {"Chapter 12", "Prologue"}}}

ContentsLists == UNION {[1..k -> ContentsLinks] : k \in 0..MaxLinks}

TocLists == UNION {[1..k -> TocLinks \cup TocSections] : k \in 0..MaxTocItems}

\* book.toc is read only when contents.xhtml gave no entry: the books with a
\* usable contents.xhtml are taken with an empty book.toc.
NoContents == {<<>>, <<[href |-> Href("ch1.xhtml", ""), text |-> ""]>>}

TocBooks ==
    {[contents |-> c, toc |-> <<>>] : c \in ContentsLists}
      \cup {[contents |-> c, toc |-> t] : c \in NoContents, t \in TocLists}

TocIdle ==
    /\ tocBook = [contents |-> <<>>, toc |-> <<>>]
    /\ toc_mapping = EmptyMap
    /\ tocPos = 1
    /\ pcToc = "idle"

TocInit ==
    /\ tocBook \in TocBooks
    /\ toc_mapping = EmptyMap
    /\ tocPos = 1
    /\ pcToc = "contents"

\* one link of contents.xhtml
TocContentsLink ==
    /\ pcToc = "contents"
    /\ tocPos <= Len(tocBook.contents)
    /\ toc_mapping' = TocAddContents(toc_mapping, tocBook.contents[tocPos])
    /\ tocPos' = tocPos + 1
    /\ UNCHANGED <<tocBook, pcToc>>
    /\ UNCHANGED <<segVars, clsVars, valVars, projVars,
                   catVars, nameVars, runVars>>

\* after the links: "if not toc_mapping" chooses the fallback
TocContentsEnd ==
    /\ pcToc = "contents"
    /\ tocPos > Len(tocBook.contents)
    /\ pcToc' = IF DOMAIN toc_mapping = {} THEN "fallback" ELSE "done"
    /\ tocPos' = 1
    /\ UNCHANGED <<tocBook, toc_mapping>>
    /\ UNCHANGED <<segVars, clsVars, valVars, projVars,
                   catVars, nameVars, runVars>>

\* one item of book.toc, with its children
TocFallbackItem ==
    /\ pcToc = "fallback"
    /\ tocPos <= Len(tocBook.toc)
    /\ toc_mapping' = process_toc_item(toc_mapping, tocBook.toc[tocPos], 0)
    /\ tocPos' = tocPos + 1
    /\ UNCHANGED <<tocBook, pcToc>>
    /\ UNCHANGED <<segVars, clsVars, valVars, projVars,
                   catVars, nameVars, runVars>>

TocReturn ==
    /\ pcToc = "fallback"
    /\ tocPos > Len(tocBook.toc)
    /\ pcToc' = "done"
    /\ UNCHANGED <<tocBook, toc_mapping, tocPos>>
    /\ UNCHANGED <<segVars, clsVars, valVars, projVars,
                   catVars, nameVars, runVars>>

TocNext == TocContentsLink \/ TocContentsEnd \/ TocFallbackItem \/ TocReturn

-----------------------------------------------------------------------------
(* The decision about one spine item, for any item and any TOC mapping *)

ClsNames == {"OEBPS/ch1.xhtml", "ch2.xhtml", "OEBPS/nav.xhtml"}

ClsKeys == {"OEBPS/ch1.xhtml", "ch1.xhtml", "nav.xhtml"}

ClsTitles == {"", "Chapter 1", "Prologue", "Copyright", "Part 2"}

ClsHas == {{}, {"said", "looked"}, {"said", "looked", "quote"}, {"part"},
           {"dedication", "said"}}

ClsUnits ==
    [name : ClsNames, chars : {49, 50}, lines : {9, 10},
     words : {150, 199, 200, 499, 500}, has : ClsHas,
     heading : {"", "Chapter 2"}, body : {<<>>}]

ClsMappings ==
    UNION {[K -> {TocEntry(t, 0) : t \in ClsTitles}] : K \in SUBSET ClsKeys}

ClsIdle ==
    /\ clsUnit = [name |-> ""]
    /\ clsMapping = EmptyMap
    /\ clsResult = Rejected
    /\ pcCls = "idle"

ClsInit ==
    /\ clsUnit \in ClsUnits
    /\ clsMapping \in ClsMappings
    /\ clsResult = Rejected
    /\ pcCls = "start"

Classify ==
    /\ pcCls = "start"
    /\ clsResult' = ExtractDecision(clsUnit, clsMapping, 1)
    /\ pcCls' = "done"
    /\ UNCHANGED <<clsUnit, clsMapping>>
    /\ UNCHANGED <<segVars, tocVars, valVars, projVars,
                   catVars, nameVars, runVars>>

ClsNext == Classify

-----------------------------------------------------------------------------
(* validate_translation_completeness on one pair of segment files *)

MaxSourceWords == 10

ValIdle ==
    /\ ro_words = 0
    /\ en_words = 0
    /\ is_final = FALSE
    /\ valResult = NoFinding
    /\ pcVal = "idle"

ValInit ==
    /\ en_words \in 0..MaxSourceWords
    /\ ro_words \in 0..(4 * MaxSourceWords)
    /\ is_final \in BOOLEAN
    /\ valResult = NoFinding
    /\ pcVal = "start"

CheckPair ==
    /\ pcVal = "start"
    /\ valResult' = segment_findings(ro_words, en_words, is_final)
    /\ pcVal' = "done"
    /\ UNCHANGED <<ro_words, en_words, is_final>>
    /\ UNCHANGED <<segVars, tocVars, clsVars, projVars,
                   catVars, nameVars, runVars>>

ValNext == CheckPair

-----------------------------------------------------------------------------
(* The names split_chapter gives the segment files, and _is_final_segment.

   A file name's stem is a sequence of pieces of text; the pieces "_seg" and
   "_of_" are every occurrence of these two substrings in the stem. *)

MaxSegments == 4

NameTitles ==
    {"Prologue", "Chapter 1", "The Segment", "The last segment", "segue",
     "Part 1 of 2"}

NameNumbers == {1, 12}

\* f"{n:02d}"
Pad2(n) ==
    CASE n = 1 -> "01" [] n = 2 -> "02" [] n = 3 -> "03" [] n = 4 -> "04"
      [] n = 5 -> "05" [] n = 6 -> "06" [] n = 12 -> "12" [] OTHER -> "NN"

\* f"{int(chapter_key):02d}_{clean_title}", clean_title the title with '_'
\* for every space
PrefixPieces(n, title) ==
    CASE title = "Prologue" -> <<Pad2(n), "_Prologue">>
      [] title = "Chapter 1" -> <<Pad2(n), "_Chapter_1">>
      [] title = "The Segment" -> <<Pad2(n), "_The_Segment">>
      [] title = "The last segment" -> <<Pad2(n), "_The_last", "_seg", "ment">>
      [] title = "segue" -> <<Pad2(n), "_seg", "ue">>
      [] title = "Part 1 of 2" -> <<Pad2(n), "_Part_1", "_of_", "2">>
      [] OTHER -> <<Pad2(n), "_">>

\* the stem of en_filename and of ro_filename
SegmentStem(n, title, segment_num, total_segments, ro) ==
    PrefixPieces(n, title)
      \o <<"_seg", Pad2(segment_num), "_of_", Pad2(total_segments)>>
      \o (IF ro THEN <<"_ro">> ELSE <<>>)

\* str.split(sep) on a stem
RECURSIVE SplitPiecesFrom(_, _, _)
SplitPiecesFrom(pieces, sep, part) ==
    IF pieces = <<>> THEN <<part>>
    ELSE IF Head(pieces) = sep
         THEN <<part>> \o SplitPiecesFrom(Tail(pieces), sep, <<>>)
         ELSE SplitPiecesFrom(Tail(pieces), sep, Append(part, Head(pieces)))

SplitPieces(pieces, sep) == SplitPiecesFrom(pieces, sep, <<>>)

\* _is_final_segment; the unpacking of a split in more than two parts raises
\* and the except returns False
is_final_segment(stem) ==
    LET name_parts == SplitPieces(stem, "_seg")
    IN  IF Len(name_parts) = 2
        THEN LET seg_info == SplitPieces(name_parts[2], "_of_")
             IN  IF Len(seg_info) = 1 THEN FALSE
                 ELSE IF Len(seg_info) = 2 THEN seg_info[1] = seg_info[2]
                 ELSE FALSE
        ELSE FALSE

NameIdle ==
    /\ nmNum = 0
    /\ nmTitle = ""
    /\ nmTotal = 0
    /\ nmIndex = 0
    /\ nmWritten = {}

NameInit ==
    /\ nmNum \in NameNumbers
    /\ nmTitle \in NameTitles
    /\ nmTotal \in 1..MaxSegments
    /\ nmIndex = 1
    /\ nmWritten = {}

WrittenName(segment_num, ro) ==
    LET stem == SegmentStem(nmNum, nmTitle, segment_num, nmTotal, ro)
    IN  [stem |-> stem, idx |-> segment_num, cnt |-> nmTotal, ro |-> ro,
         final |-> is_final_segment(stem)]

\* one turn of the loop over the segments: the two files of segment_num
NameWrite ==
    /\ nmIndex >= 1
    /\ nmIndex <= nmTotal
    /\ nmWritten' = nmWritten \cup {WrittenName(nmIndex, FALSE),
                                    WrittenName(nmIndex, TRUE)}
    /\ nmIndex' = nmIndex + 1
    /\ UNCHANGED <<nmNum, nmTitle, nmTotal>>
    /\ UNCHANGED <<segVars, tocVars, clsVars, valVars,
                   catVars, projVars, runVars>>

NameNext == NameWrite

-----------------------------------------------------------------------------
(* _categorize_chapter_type on one title, one test at a time *)

CatIdle ==
    /\ catTitle = ""
    /\ catTest = "idle"
    /\ catIndex = 1
    /\ catResult = ""

CatInit ==
    /\ catTitle \in Titles
    /\ catTest = "special"
    /\ catIndex = 1
    /\ catResult = ""

\* one pattern of a list, or one of the single tests
CatStep ==
    /\ catTest \notin {"idle", "done"}
    /\ LET st == categorize_step(catTitle, catTest, catIndex)
       IN  /\ catTest' = st.test
           /\ catIndex' = st.i
           /\ catResult' = st.result
    /\ UNCHANGED catTitle
    /\ UNCHANGED <<segVars, tocVars, clsVars, valVars,
                   projVars, nameVars, runVars>>

CatNext == CatStep

-----------------------------------------------------------------------------
(* One project: the operations, the translator and the book on disk *)

MaxEdits == 2
MaxSwaps == 1
MaxRerunEdits == 1
MaxStops == 1

Unit(name, chars, lines, words, has, heading, body) ==
    [name |-> name, chars |-> chars, lines |-> lines, words |-> words,
     has |-> has, heading |-> heading, body |-> body]

Cover == Unit("OEBPS/cover.xhtml", 20, 1, 3, {}, "", <<W(3)>>)

PrologueUnit ==
    Unit("OEBPS/prologue.xhtml", 600, 4, 100, {"prologue", "said"}, "",
         <<W(100)>>)

\* 900, 700 and 100 words: two segments
ChapterOneUnit ==
    Unit("OEBPS/ch1.xhtml", 9000, 3, 1700, {"said", "looked"}, "",
         <<W(900), NL, NL, W(700), NL, NL, W(100)>>)

\* the same unit in a revised book: three segments
ChapterOneRevised ==
    Unit("OEBPS/ch1.xhtml", 14000, 3, 2700, {"said", "looked"}, "",
         <<W(900), NL, NL, W(900), NL, NL, W(900)>>)

\* a unit of a book without a table of contents, with a '<' in its first
\* paragraph and a '>' in its second: two segments
PlainOne ==
    Unit("ch1.xhtml", 8500, 40, 1602, {"said", "looked", "felt"}, "",
         <<W(900), LT, NL, NL, W(700), GT>>)

ContentsOfBook ==
    <<[href |-> Href("prologue.xhtml", ""), text |-> "Prologue"],
      [href |-> Href("ch1.xhtml", "start"), text |-> "Chapter 1"]>>

BookWithPrologue ==
    [contents |-> ContentsOfBook, toc |-> <<>>,
     spine |-> <<Cover, PrologueUnit, ChapterOneUnit>>]

BookRevised ==
    [contents |-> ContentsOfBook, toc |-> <<>>,
     spine |-> <<Cover, PrologueUnit, ChapterOneRevised>>]

BookWithoutToc ==
    [contents |-> <<>>, toc |-> <<>>, spine |-> <<Cover, PlainOne>>]

Books == {BookWithPrologue, BookRevised, BookWithoutToc}

\* the chapter numbers a command is given
ChapterNumbers == 1..3

ProjIdle ==
    /\ epub = [contents |-> <<>>, toc |-> <<>>, spine |-> <<>>]
    /\ en_chapters = {}
    /\ en_segments = {}
    /\ ro_segments = {}
    /\ ro_chapters = {}
    /\ log = EmptyLog
    /\ report = NoReport
    /\ edits = 0
    /\ swaps = 0

\* after init_project has made the directories, copied the book and saved the
\* first log
ProjInit ==
    /\ epub \in Books
    /\ en_chapters = {}
    /\ en_segments = {}
    /\ ro_segments = {}
    /\ ro_chapters = {}
    /\ log = EmptyLog
    /\ report = NoReport
    /\ edits = 0
    /\ swaps = 0

Extract ==
    /\ LET r == extract_chapters(epub, log)
       IN  /\ en_chapters' = r.files
           /\ log' = r.log
    /\ report' = [op |-> "extract_chapters", n |-> 0, outcome |-> "extracted",
                  files |-> {}]
    /\ UNCHANGED <<epub, en_segments, ro_segments, ro_chapters, edits, swaps>>
    /\ UNCHANGED <<segVars, tocVars, clsVars, valVars,
                   catVars, nameVars, runVars>>

ProjState ==
    [en |-> en_segments, ro |-> ro_segments, log |-> log, outcome |-> ""]

SplitChapter(n) ==
    /\ LET st == split_chapter(ProjState, en_chapters, n)
       IN  /\ en_segments' = st.en
           /\ ro_segments' = st.ro
           /\ log' = st.log
           /\ report' = [op |-> "split_chapter", n |-> n,
                         outcome |-> st.outcome, files |-> {}]
    /\ UNCHANGED <<epub, en_chapters, ro_chapters, edits, swaps>>
    /\ UNCHANGED <<segVars, tocVars, clsVars, valVars,
                   catVars, nameVars, runVars>>

\* no run of split_chapter is in progress
NoRun == [pc |-> "none", log |-> EmptyLog, result |-> EmptyLog]

RunsIdle ==
    /\ runs = [n \in ChapterNumbers |-> NoRun]
    /\ stops = 0

\* a run of split_chapter that is stopped before it saves the log
SplitChapterStopped(n) ==
    /\ stops < MaxStops
    /\ stops' = stops + 1
    /\ UNCHANGED runs
    /\ \E st \in split_chapter_stopped(ProjState, en_chapters, n) :
          /\ en_segments' = st.en
          /\ ro_segments' = st.ro
          /\ report' = [op |-> "split_chapter", n |-> n,
                        outcome |-> st.outcome, files |-> {}]
    /\ UNCHANGED <<epub, en_chapters, ro_chapters, log, edits, swaps>>
    /\ UNCHANGED <<segVars, tocVars, clsVars, valVars,
                   catVars, nameVars>>

\* save_log keeps the records on disk that are further on than its own
log_after_save_keeps_newer(on_disk, saved) ==
    [saved EXCEPT !.chapters =
        [k \in DOMAIN @ |->
            IF /\ k \in DOMAIN on_disk.chapters
               /\ on_disk.chapters[k].status = "segmented"
               /\ @[k].status = "extracted"
            THEN on_disk.chapters[k] ELSE @[k]]]

\* save_log: the log file is opened for writing and the whole log is dumped
log_after_save(on_disk, saved) == saved

\* A run of split_chapter in three steps, so that runs can overlap: load_log
\* at its start,
RunLoad(n) ==
    /\ runs[n].pc = "none"
    /\ n \in DOMAIN log.chapters
    /\ runs' = [runs EXCEPT ![n] = [pc |-> "loaded", log |-> log,
                                    result |-> EmptyLog]]
    /\ UNCHANGED <<projVars, stops>>
    /\ UNCHANGED <<segVars, tocVars, clsVars, valVars, catVars, nameVars>>

\* the chapter's files cleared and written, and the record of the loaded log
\* updated in memory,
RunFiles(n) ==
    /\ runs[n].pc = "loaded"
    /\ LET st == split_known_chapter([en |-> en_segments, ro |-> ro_segments,
                                      log |-> runs[n].log, outcome |-> ""],
                                     en_chapters, n)
       IN  /\ en_segments' = st.en
           /\ ro_segments' = st.ro
           /\ runs' = [runs EXCEPT ![n] =
                          [pc |-> IF st.outcome = "split" THEN "written"
                                  ELSE "done",
                           log |-> runs[n].log,
                           result |-> st.log]]
           /\ report' = IF st.outcome = "split" THEN report
                        ELSE [op |-> "split_chapter", n |-> n,
                              outcome |-> st.outcome, files |-> {}]
    /\ UNCHANGED <<epub, en_chapters, ro_chapters, log, edits, swaps, stops>>
    /\ UNCHANGED <<segVars, tocVars, clsVars, valVars, catVars, nameVars>>

\* and save_log at its end
RunSave(n) ==
    /\ runs[n].pc = "written"
    /\ log' = log_after_save(log, runs[n].result)
    /\ runs' = [runs EXCEPT ![n].pc = "done"]
    /\ report' = [op |-> "split_chapter", n |-> n, outcome |-> "split",
                  files |-> {}]
    /\ UNCHANGED <<epub, en_chapters, en_segments, ro_segments, ro_chapters,
                   edits, swaps, stops>>
    /\ UNCHANGED <<segVars, tocVars, clsVars, valVars, catVars, nameVars>>

SplitAll ==
    /\ LET st == split_all_chapters(ProjState, en_chapters)
       IN  /\ en_segments' = st.en
           /\ ro_segments' = st.ro
           /\ log' = st.log
           /\ report' = [op |-> "split_all_chapters", n |-> 0,
                         outcome |-> st.outcome, files |-> {}]
    /\ UNCHANGED <<epub, en_chapters, ro_chapters, edits, swaps>>
    /\ UNCHANGED <<segVars, tocVars, clsVars, valVars,
                   catVars, nameVars, runVars>>

ValidateIntegrity(n) ==
    /\ report' = validate_segment_integrity(log, en_chapters, en_segments, n)
    /\ UNCHANGED <<epub, en_chapters, en_segments, ro_segments, ro_chapters,
                   log, edits, swaps>>
    /\ UNCHANGED <<segVars, tocVars, clsVars, valVars,
                   catVars, nameVars, runVars>>

ValidateCompleteness(n) ==
    /\ report' = validate_translation_completeness(en_segments, ro_segments, n)
    /\ UNCHANGED <<epub, en_chapters, en_segments, ro_segments, ro_chapters,
                   log, edits, swaps>>
    /\ UNCHANGED <<segVars, tocVars, clsVars, valVars,
                   catVars, nameVars, runVars>>

CombineChapter(n) ==
    /\ LET r == combine_chapter(ro_segments, ro_chapters, n)
       IN  /\ ro_chapters' = r.files
           /\ report' = r.report
    /\ UNCHANGED <<epub, en_chapters, en_segments, ro_segments, log, edits,
                   swaps>>
    /\ UNCHANGED <<segVars, tocVars, clsVars, valVars,
                   catVars, nameVars, runVars>>

\* the translator saves one of the translated segment files
TranslatorSaves(f, kind) ==
    /\ edits < MaxEdits
    /\ f \in ro_segments
    /\ kind # f.kind
    /\ ro_segments' = (ro_segments \ {f}) \cup {[f EXCEPT !.kind = kind]}
    /\ edits' = edits + 1
    /\ report' = NoReport
    /\ UNCHANGED <<epub, en_chapters, en_segments, ro_chapters, log, swaps>>
    /\ UNCHANGED <<segVars, tocVars, clsVars, valVars,
                   catVars, nameVars, runVars>>

\* the book file in 00_en_full_epub is replaced by another edition
EpubReplaced(book) ==
    /\ swaps < MaxSwaps
    /\ book # epub
    /\ epub' = book
    /\ swaps' = swaps + 1
    /\ report' = NoReport
    /\ UNCHANGED <<en_chapters, en_segments, ro_segments, ro_chapters, log,
                   edits>>
    /\ UNCHANGED <<segVars, tocVars, clsVars, valVars,
                   catVars, nameVars, runVars>>

\* the operations that write segment files and the log, the translator and
\* the book
Next ==
    \/ Extract
    \/ \E n \in ChapterNumbers : SplitChapter(n)
    \/ SplitAll
    \/ \E f \in ro_segments, kind \in Kinds : TranslatorSaves(f, kind)
    \/ \E book \in Books : EpubReplaced(book)

\* the operations on one chapter, for one book
OpsNext ==
    \/ Extract
    \/ \E n \in ChapterNumbers : SplitChapter(n)
    \/ \E n \in ChapterNumbers : ValidateIntegrity(n)
    \/ \E n \in ChapterNumbers : ValidateCompleteness(n)
    \/ \E n \in ChapterNumbers : CombineChapter(n)
    \/ \E f \in ro_segments, kind \in Kinds : TranslatorSaves(f, kind)

\* the operations that write files and the log, on a project that nobody
\* has translated yet
BookNext ==
    \/ Extract
    \/ \E n \in ChapterNumbers : SplitChapter(n)
    \/ SplitAll
    \/ \E book \in Books : EpubReplaced(book)

\* split_chapter run to its end or stopped on the way, a translator and a
\* book that may change

RerunNext ==
    \/ Extract
    \/ \E n \in ChapterNumbers : SplitChapter(n)
    \/ \E n \in ChapterNumbers : SplitChapterStopped(n)
    \/ \E f \in ro_segments, kind \in Kinds :
          edits < MaxRerunEdits /\ TranslatorSaves(f, kind)
    \/ \E book \in Books : EpubReplaced(book)

\* runs of split_chapter that may overlap, one for each chapter number, on a
\* book that may change
RunsNext ==
    \/ Extract
    \/ \E n \in ChapterNumbers : RunLoad(n)
    \/ \E n \in ChapterNumbers : RunFiles(n)
    \/ \E n \in ChapterNumbers : RunSave(n)
    \/ \E book \in Books : EpubReplaced(book)

-----------------------------------------------------------------------------
(* Specifications *)

Init ==
    /\ ProjInit /\ SegIdle /\ TocIdle /\ ClsIdle
    /\ ValIdle /\ CatIdle /\ NameIdle /\ RunsIdle

Spec == Init /\ [][Next]_vars

SpecOps == Init /\ [][OpsNext]_vars

SpecBook == Init /\ [][BookNext]_vars

SpecRerun == Init /\ [][RerunNext]_vars

SpecRuns == Init /\ [][RunsNext]_vars

InitSeg ==
    /\ SegInit /\ TocIdle /\ ClsIdle /\ ValIdle
    /\ CatIdle /\ ProjIdle /\ NameIdle /\ RunsIdle

SpecSeg == InitSeg /\ [][SegNext]_vars

InitToc ==
    /\ TocInit /\ SegIdle /\ ClsIdle /\ ValIdle
    /\ CatIdle /\ ProjIdle /\ NameIdle /\ RunsIdle

SpecToc == InitToc /\ [][TocNext]_vars

InitCls ==
    /\ ClsInit /\ SegIdle /\ TocIdle /\ ValIdle
    /\ CatIdle /\ ProjIdle /\ NameIdle /\ RunsIdle

SpecCls == InitCls /\ [][ClsNext]_vars

InitVal ==
    /\ ValInit /\ SegIdle /\ TocIdle /\ ClsIdle
    /\ CatIdle /\ ProjIdle /\ NameIdle /\ RunsIdle

SpecVal == InitVal /\ [][ValNext]_vars

InitCat ==
    /\ CatInit /\ SegIdle /\ TocIdle /\ ClsIdle
    /\ ValIdle /\ ProjIdle /\ NameIdle /\ RunsIdle

SpecCat == InitCat /\ [][CatNext]_vars

InitName ==
    /\ NameInit /\ SegIdle /\ TocIdle /\ ClsIdle /\ ValIdle /\ CatIdle
    /\ ProjIdle /\ RunsIdle

SpecName == InitName /\ [][NameNext]_vars

-----------------------------------------------------------------------------
(* Claims about the segmenter *)

SegmentWordTotal == SumSeq([i \in 1..Len(segments) |-> count_words(segments[i])])

\* The non-empty paragraphs of a text, stripped, in order
NonEmptyParagraphs(c) ==
    LET ps == SplitParagraphs(Strip(c))
        stripped == [i \in 1..Len(ps) |-> Strip(ps[i])]
    IN  SelectSeq(stripped, LAMBDA p : p # <<>>)

\* C1: when the segmenter has returned, the word counts of the segments add up
\* to the word count of the chapter text, within 5 words.
C1_WordPreservation ==
    pcSeg = "done" =>
        Abs(SegmentWordTotal - count_words(content)) <= WORD_TOLERANCE

\* C4: when the segmenter has returned, the paragraphs of the segments, read in
\* segment order, are the chapter's non-empty paragraphs in their order, and
\* the buffer is empty.
C4_ParagraphsPreserved ==
    pcSeg = "done" =>
        /\ Flatten([i \in 1..Len(segments) |-> NonEmptyParagraphs(segments[i])])
             = NonEmptyParagraphs(content)
        /\ current_segment = <<>>

C4_Witness ==
    /\ pcSeg = "done"
    /\ Len(segments) = 2
    /\ Len(NonEmptyParagraphs(content)) = 3
    /\ Len(NonEmptyParagraphs(segments[2])) = 2

\* C5: segmenting a non-empty text returns at least one segment.
C5_AtLeastOneSegment ==
    (pcSeg = "done" /\ content # <<>>) => Len(segments) >= 1

C5_Witness ==
    /\ pcSeg = "done"
    /\ content # <<>>
    /\ Strip(content) = <<>>
    /\ Len(segments) = 1

-----------------------------------------------------------------------------
(* Claims about the TOC mapping *)

\* the titles of the entries that name file f, in the order of the list
RECURSIVE FallbackTitles(_, _)
FallbackTitles(items, f) ==
    IF items = <<>> THEN <<>>
    ELSE LET it == Head(items)
             own == IF (it.kind = "link" \/ it.has_href) /\ HrefFile(it.href) = f
                    THEN <<it.title>> ELSE <<>>
             kids == IF it.kind = "section"
                     THEN SelectSeq(it.children,
                                    LAMBDA c : HrefFile(c.href) = f)
                     ELSE <<>>
         IN  own \o [i \in 1..Len(kids) |-> kids[i].title]
                 \o FallbackTitles(Tail(items), f)

ContentsTitles(links, f) ==
    LET mine == SelectSeq(links, LAMBDA l : /\ ~HrefIsEmpty(l.href)
                                            /\ l.text # ""
                                            /\ HrefFile(l.href) = f)
    IN  [i \in 1..Len(mine) |-> mine[i].text]

\* the TOC titles given to file f by the source the mapping was built from
TitlesFor(f) ==
    IF \E i \in 1..Len(tocBook.contents) :
           /\ ~HrefIsEmpty(tocBook.contents[i].href)
           /\ tocBook.contents[i].text # ""
    THEN ContentsTitles(tocBook.contents, f)
    ELSE FallbackTitles(tocBook.toc, f)

\* C6: a unit listed in the TOC as "Part Two" and later as "Chapter 12" is
\* mapped to the title "Chapter 12", whose type is regular.
C6_ChapterOverridesPartTwo ==
    pcToc = "done" =>
        \A f \in TocFiles :
            TitlesFor(f) = <<"Part Two", "Chapter 12">> =>
                /\ f \in DOMAIN toc_mapping
                /\ toc_mapping[f].title = "Chapter 12"
                /\ categorize_chapter_type(toc_mapping[f].title) = "regular"

-----------------------------------------------------------------------------
(* Claims about the decision on one spine item *)

NoTocEntry ==
    /\ clsUnit.name \notin DOMAIN clsMapping
    /\ Basename(clsUnit.name) \notin DOMAIN clsMapping

NoSkipWord == NameWords(clsUnit.name) \cap skip_patterns = {}

ContentSignal ==
    \/ clsUnit.words >= 500
    \/ Cardinality(clsUnit.has \cap narrative_patterns) >= 3
    \/ clsUnit.has \cap chapter_indicators # {}

\* C7 as stated: a unit of at least 50 characters that is absent from the TOC
\* mapping is content exactly when its filename has no skip word, it has at
\* least 10 non-blank lines, and it has 500 words or a narrative score of 3 or
\* a chapter word.
C7_HeuristicAsStated ==
    (pcCls = "done" /\ clsUnit.chars >= 50 /\ NoTocEntry) =>
        (clsResult.accepted <=>
            (NoSkipWord /\ clsUnit.lines >= 10 /\ ContentSignal))

\* C7 as amended: ... and it has at least 200 whitespace-separated words.
C7_HeuristicWithMinimumWords ==
    (pcCls = "done" /\ clsUnit.chars >= 50 /\ NoTocEntry) =>
        (clsResult.accepted <=>
            (NoSkipWord /\ clsUnit.lines >= 10 /\ clsUnit.words >= 200
               /\ ContentSignal))

C7_Witness ==
    /\ pcCls = "done"
    /\ clsUnit.chars >= 50
    /\ NoTocEntry
    /\ clsResult.accepted
    /\ clsUnit.words = 200
    /\ clsUnit.has = {"said", "looked", "quote"}

\* the TOC entry of the unit: the one under its name, else under its basename
ClsTocTitle ==
    IF clsUnit.name \in DOMAIN clsMapping THEN clsMapping[clsUnit.name].title
    ELSE IF Basename(clsUnit.name) \in DOMAIN clsMapping
         THEN clsMapping[Basename(clsUnit.name)].title
         ELSE ""

StoryTitles == {t \in ClsTitles : t # "" /\ categorize_chapter_type(t) # "metadata"}

\* C8: a unit of at least 50 characters whose TOC entry has a title of type
\* regular or special is accepted with that title and that type, whatever its
\* text and filename; a unit of fewer than 50 characters is discarded.
C8_TocFirst ==
    pcCls = "done" =>
        /\ (clsUnit.chars >= 50 /\ ClsTocTitle \in StoryTitles) =>
              /\ clsResult.accepted
              /\ clsResult.title = ClsTocTitle
              /\ clsResult.chapter_type = categorize_chapter_type(ClsTocTitle)
              /\ clsResult.chapter_type \in {"regular", "special"}
        /\ clsUnit.chars < 50 => ~clsResult.accepted

C8_Witness ==
    /\ pcCls = "done"
    /\ clsUnit.chars >= 50
    /\ clsUnit.name = "OEBPS/nav.xhtml"
    /\ clsUnit.name \notin DOMAIN clsMapping
    /\ ClsTocTitle = "Chapter 1"
    /\ clsUnit.lines < 10
    /\ clsResult.accepted
    /\ clsResult.chapter_type = "regular"

C8_WitnessShort ==
    /\ pcCls = "done"
    /\ clsUnit.chars < 50
    /\ ClsTocTitle = "Prologue"
    /\ ~clsResult.accepted

-----------------------------------------------------------------------------
(* Claims about the project *)

\* a translated file whose bytes are translated text, decodable or not
HoldsRealContent(kind) == kind \in {"real", "unreadable"}

WritingOps == {"extract_chapters", "split_chapter", "split_all_chapters"}

\* C2: no run of extract_chapters, split_chapter or split_all_chapters
\* deletes or overwrites a translated segment file that holds real content.
C2_RealContentKept ==
    [][report'.op \in WritingOps =>
          \A f \in ro_segments : HoldsRealContent(f.kind) => f \in ro_segments']_vars

\* the translated files split_chapter(n) finds under the chapter's prefix
ChapterTranslations(n) ==
    IF n \in DOMAIN log.chapters
    THEN {f \in ro_segments :
             MatchesPrefix(f, [num |-> n,
                               title |-> Underscored(log.chapters[n].title)])}
    ELSE {}

\* C3: when split_chapter re-segments a chapter of which a translated file
\* holds real content, every existing translated file of the chapter is
\* still there with the same content afterwards, and the only files added
\* are empty ones under names that did not exist.
C3_ExistingFilesUntouched ==
    [][\A n \in ChapterNumbers :
          (/\ report'.op = "split_chapter"
           /\ report'.n = n
           /\ report'.outcome = "split"
           /\ \E f \in ChapterTranslations(n) : IsTranslationText(f.kind))
          => /\ ChapterTranslations(n) \subseteq ro_segments'
             /\ \A g \in ro_segments' \ ro_segments :
                   /\ g.kind = "empty"
                   /\ \A f \in ro_segments : SegName(f) # SegName(g)]_vars

\* the units of a book that extract_chapters accepts, in spine order
AcceptedUnits(book) ==
    SelectSeq(book.spine,
              LAMBDA u : ExtractDecision(u, build_toc_mapping(book), 1).accepted)

\* C9: after extract_chapters the i-th accepted unit of the spine is chapter
\* i of the ledger and of the chapter files, for i = 1..N with N the number
\* of accepted units; no other number is given to a file, and
\* project.total_chapters is N.
C9_SequenceNumbers ==
    report.op = "extract_chapters" =>
        LET acc == AcceptedUnits(epub)
            N == Len(acc)
        IN  /\ log.project.total_chapters = N
            /\ {c.name.num : c \in en_chapters} = 1..N
            /\ Cardinality(en_chapters) = N
            /\ \A i \in 1..N :
                  /\ i \in DOMAIN log.chapters
                  /\ log.chapters[i].original_file = acc[i].name
                  /\ log.chapters[i].filename.num = i
                  /\ \E c \in en_chapters :
                        /\ c.name = log.chapters[i].filename
                        /\ c.body = acc[i].body

\* a book whose first unit is rejected has been extracted
C9_Witness ==
    /\ report.op = "extract_chapters"
    /\ Len(epub.spine) = 3
    /\ ~ExtractDecision(epub.spine[1], build_toc_mapping(epub), 1).accepted
    /\ log.project.total_chapters = 2
    /\ log.chapters[1].original_file = "OEBPS/prologue.xhtml"
    /\ log.chapters[2].original_file = "OEBPS/ch1.xhtml"

ChapterOps ==
    {"validate_segment_integrity", "validate_translation_completeness",
     "combine_chapter"}

\* C10: an operation given the chapter number n reads the segment files of
\* the chapter whose sequence number is n.
C10_ActsOnSequenceNumber ==
    report.op \in ChapterOps => \A f \in report.files : f.num = report.n

\* C11: after extract_chapters the ledger holds a record for exactly the
\* chapters accepted in that run, each with status extracted.
C11_LedgerRebuilt ==
    report.op = "extract_chapters" =>
        /\ DOMAIN log.chapters = 1..Len(AcceptedUnits(epub))
        /\ \A n \in DOMAIN log.chapters : log.chapters[n].status = "extracted"

\* C12: after combine_chapter has combined the translated segments of a
\* chapter, the ledger status of that chapter is combined.
C12_CombinedStatus ==
    (report.op = "combine_chapter" /\ report.outcome = "combined") =>
        \A f \in report.files :
            /\ f.num \in DOMAIN log.chapters
            /\ log.chapters[f.num].status = "combined"

-----------------------------------------------------------------------------
(* Claims about the validation of one pair of segment files *)

\* C13: for a segment with a non-empty translation, with ratio the
\* translated words over the source words (0 for a source without words):
\* ratio < 0.5 adds an error and makes the result invalid whether the
\* segment is final or not; 0.5 <= ratio < 0.8 adds the "shorter" warning
\* when the segment is not final and nothing when it is; ratio > 3.0 adds
\* the "much longer" warning; any other ratio adds nothing.
C13_RatioFindings ==
    (pcVal = "done" /\ ro_words > 0) =>
        LET tooShort == en_words = 0 \/ 2 * ro_words < en_words
            shorter == ~tooShort /\ 5 * ro_words < 4 * en_words
            muchLonger == en_words > 0 /\ ro_words > 3 * en_words
        IN  /\ valResult.translated
            /\ tooShort <=> valResult.error = "too short"
            /\ valResult.valid <=> ~tooShort
            /\ valResult.error \in {"", "too short"}
            /\ (shorter /\ ~is_final) <=>
                  valResult.warning = "shorter than expected"
            /\ muchLonger <=> valResult.warning = "much longer than expected"
            /\ valResult.warning \in
                  {"", "shorter than expected", "much longer than expected"}

\* a final segment translated with 4 words for 10 is an error
C13_Witness ==
    /\ pcVal = "done"
    /\ is_final
    /\ en_words = 10
    /\ ro_words = 4
    /\ ~valResult.valid

\* a final segment translated with 6 words for 10 adds nothing
C13_WitnessFinalExempt ==
    /\ pcVal = "done"
    /\ is_final
    /\ en_words = 10
    /\ ro_words = 6
    /\ valResult.valid
    /\ valResult.warning = ""

-----------------------------------------------------------------------------
(* Claims about split_chapter *)

\* the source segment files under the prefix of chapter n in the ledger
ChapterSegments(n) ==
    IF n \in DOMAIN log.chapters
    THEN {f \in en_segments :
             MatchesPrefix(f, [num |-> n,
                               title |-> Underscored(log.chapters[n].title)])}
    ELSE {}

\* the words of the source segment files of chapter n, counted per file
ChapterSegmentWords(n) ==
    LET sorted == SortedFiles(ChapterSegments(n))
    IN  SumSeq([i \in 1..Len(sorted) |-> count_words(sorted[i].text)])

\* the body of the chapter file of chapter n
ChapterBody(n) ==
    (CHOOSE c \in en_chapters : c.name = log.chapters[n].filename).body

\* C14: when split_chapter has split a chapter whose segments' words differ
\* from the words of the chapter body by more than 5, the segments are
\* written, the status is segmented and the ledger holds the warning of the
\* mismatch; and the ledger's warning list never holds a warning twice.
C14_MismatchWarned ==
    /\ \A i, j \in 1..Len(log.warnings) :
          i # j => log.warnings[i] # log.warnings[j]
    /\ (report.op = "split_chapter" /\ report.outcome = "split") =>
          LET n == report.n
              original == count_words(ChapterBody(n))
              total == ChapterSegmentWords(n)
          IN  Abs(total - original) > WORD_TOLERANCE =>
                 /\ ChapterSegments(n) # {}
                 /\ log.chapters[n].status = "segmented"
                 /\ InSeq(MismatchWarning(n, original, total), log.warnings)

\* a chapter with a mismatch of 700 words has been split
C14_Witness ==
    /\ report.op = "split_chapter"
    /\ report.outcome = "split"
    /\ ChapterSegmentWords(report.n) - count_words(ChapterBody(report.n)) = 700
    /\ Len(log.warnings) = 1
    /\ log.chapters[report.n].status = "segmented"

C16_PlaceholdersRecreated ==
    [][\A n \in ChapterNumbers :
          (/\ report'.op = "split_chapter"
           /\ report'.n = n
           /\ report'.outcome = "split"
           /\ \A f \in ChapterTranslations(n) : ~HoldsRealContent(f.kind))
          => LET prefix == [num |-> n,
                            title |-> Underscored(log.chapters[n].title)]
                 N == log'.chapters[n].segments
                 after == {f \in ro_segments' : MatchesPrefix(f, prefix)}
             IN  /\ after = {[num |-> prefix.num, title |-> prefix.title,
                              idx |-> i, cnt |-> N, kind |-> "empty"] :
                                i \in 1..N}
                 /\ Cardinality({f \in en_segments' : MatchesPrefix(f, prefix)})
                       = N
                 /\ ro_segments' \ after =
                       ro_segments \ ChapterTranslations(n)]_vars

\* the only chapter of a book has been split again after the translator
\* saved something other than a translation into one of its files
C16_Witness ==
    /\ report.op = "split_chapter"
    /\ report.outcome = "split"
    /\ epub = BookWithoutToc
    /\ swaps = 0
    /\ edits = 1
    /\ Cardinality(ro_segments) = 2
    /\ \A f \in ro_segments : f.kind = "empty"

-----------------------------------------------------------------------------
(* Claims about the segmenter's limits *)

\* the loop is at a paragraph that does not fit a buffer of at least
\* MIN_WORDS_INTERMEDIATE words
OverflowsBigBuffer ==
    /\ pcSeg = "loop"
    /\ index <= Len(paragraphs)
    /\ Strip(paragraphs[index]) # <<>>
    /\ current_word_count >= MIN_WORDS_INTERMEDIATE
    /\ current_word_count + count_words(Strip(paragraphs[index]))
          > MAX_WORDS_PER_SEGMENT

\* C17: a paragraph that would take a buffer of at least MIN_INTERMEDIATE
\* words above MAX makes the loop emit the buffer as a segment and start a
\* new buffer that holds that paragraph alone (emitted in its turn when the
\* paragraph is the last); paragraphs of 900, 700 and 100 words give the two
\* segments of 900 and of 700 + 100 words.
C17_EmitAndRestart ==
    /\ [](/\ pcSeg = "done"
          /\ content = <<W(900), NL, NL, W(700), NL, NL, W(100)>>
          => /\ segments = << <<W(900)>>, <<W(700), NL, NL, W(100)>> >>
             /\ count_words(segments[1]) = 900
             /\ count_words(segments[2]) = 800)
    /\ [][(OverflowsBigBuffer /\ index' = index + 1) =>
            LET paragraph == Strip(paragraphs[index])
                emitted == Append(segments, JoinParagraphs(current_segment))
            IN  /\ current_segment # <<>>
                /\ IF index < Len(paragraphs)
                   THEN /\ segments' = emitted
                        /\ current_segment' = <<paragraph>>
                        /\ current_word_count' = count_words(paragraph)
                   ELSE /\ segments' = Append(emitted, paragraph)
                        /\ current_segment' = <<>>]_vars

\* the 900, 700, 100 example has been segmented
C17_Witness ==
    /\ pcSeg = "done"
    /\ content = <<W(900), NL, NL, W(700), NL, NL, W(100)>>
    /\ Len(segments) = 2

\* C18: the step that processes the last paragraph emits the whole buffer as
\* the final segment and leaves the buffer empty; when the buffer held at
\* least MIN_INTERMEDIATE words and the last paragraph did not fit, the
\* final segment is that paragraph alone; 1600 words and a last paragraph of
\* 12 words give a final segment of 12 words.
C18_FinalFlush ==
    /\ [](/\ pcSeg = "done"
          /\ content = <<W(1600), NL, NL, W(12)>>
          => /\ segments = << <<W(1600)>>, <<W(12)>> >>
             /\ count_words(segments[2]) = 12)
    /\ [][(/\ pcSeg = "loop"
           /\ index = Len(paragraphs)
           /\ index' = index + 1) =>
            LET paragraph == Strip(paragraphs[index])
                last == segments'[Len(segments')]
            IN  /\ current_segment' = <<>>
                /\ Len(segments') >= 1
                /\ IF OverflowsBigBuffer
                   THEN /\ last = paragraph
                        /\ Len(segments') = Len(segments) + 2
                   ELSE /\ last = JoinParagraphs(Append(current_segment,
                                                        paragraph))
                        /\ Len(segments') = Len(segments) + 1]_vars

\* the 1600, 12 example has been segmented
C18_Witness ==
    /\ pcSeg = "done"
    /\ content = <<W(1600), NL, NL, W(12)>>
    /\ Len(segments) = 2
    /\ segments[2] = <<W(12)>>

\* C19: every returned segment but the last holds at least
\* MIN_WORDS_INTERMEDIATE words.
C19_IntermediateMinimum ==
    pcSeg = "done" =>
        \A i \in 1..(Len(segments) - 1) :
            count_words(segments[i]) >= MIN_WORDS_INTERMEDIATE

\* the word counts of the paragraphs of a segment, as the loop counts them
ParagraphWords(seg) ==
    LET ps == NonEmptyParagraphs(seg)
    IN  [k \in 1..Len(ps) |-> count_words(ps[k])]

\* C20: a returned segment of more than MAX words is a single paragraph or
\* its paragraphs before the last total fewer than MIN_INTERMEDIATE words
\* (so only its last paragraph takes it above MAX), and the segments hold
\* all the paragraphs of the text.
C20_SoftMaximum ==
    (pcSeg = "done" /\ count_words(content) >= SMALL_CONTENT_WORDS) =>
        /\ \A i \in 1..Len(segments) :
              LET words == ParagraphWords(segments[i])
                  before == SumSeq(SubSeq(words, 1, Len(words) - 1))
              IN  (count_words(segments[i]) > MAX_WORDS_PER_SEGMENT
                     \/ SumSeq(words) > MAX_WORDS_PER_SEGMENT) =>
                      /\ Len(words) = 1 \/ before < MIN_WORDS_INTERMEDIATE
                      /\ before <= MAX_WORDS_PER_SEGMENT
        /\ Flatten([i \in 1..Len(segments) |-> ParagraphWords(segments[i])])
              = ParagraphWords(content)

\* a segment of 700 + 900 words has been returned
C20_Witness ==
    /\ pcSeg = "done"
    /\ \E i \in 1..Len(segments) :
          /\ count_words(segments[i]) > MAX_WORDS_PER_SEGMENT
          /\ Len(ParagraphWords(segments[i])) = 2

-----------------------------------------------------------------------------
(* Claims about repeated TOC entries and the order of the title tests *)

\* a numbered-chapter title that comes after a part or broadsheet title
ChapterReplacesPart(first_title, later_title) ==
    /\ Contains(later_title, "chapter") /\ HasDigit(later_title)
    /\ \/ Contains(first_title, "part")
       \/ Contains(first_title, "broadsheet")

\* C21: when several TOC entries name the same unit and no later one is a
\* numbered-chapter title replacing a part or broadsheet title, the mapping
\* records the title of the first entry, for either TOC source.
C21_FirstSeenWins ==
    pcToc = "done" =>
        \A f \in TocFiles :
            LET ts == TitlesFor(f)
            IN  (/\ Len(ts) >= 2
                 /\ \A j \in 2..Len(ts) : ~ChapterReplacesPart(ts[1], ts[j]))
                => /\ f \in DOMAIN toc_mapping
                   /\ toc_mapping[f].title = ts[1]

\* C22: the title tests come in a fixed order: a special-chapter marker gives
\* special whatever else the title holds; otherwise 'chapter' with a digit
\* gives regular, also beside a metadata marker; otherwise a metadata marker
\* gives metadata; a title with none of these is special.
C22_TestOrder ==
    catTest = "done" =>
        LET has_special == \E p \in special_patterns : Contains(catTitle, p)
            numbered == Contains(catTitle, "chapter") /\ HasDigit(catTitle)
            has_metadata == \E p \in metadata_patterns : Contains(catTitle, p)
        IN  /\ has_special => catResult = "special"
            /\ ~has_special /\ numbered => catResult = "regular"
            /\ ~has_special /\ ~numbered /\ has_metadata
                  => catResult = "metadata"
            /\ ~has_special /\ ~numbered /\ ~has_metadata
                  => catResult = "special"
            /\ catResult = categorize_chapter_type(catTitle)

\* a numbered chapter with a metadata marker in its title has been typed
C22_Witness ==
    /\ catTest = "done"
    /\ catTitle = "Chapter 5: Map of the City"
    /\ catResult = "regular"

-----------------------------------------------------------------------------
(* Claims about the segment file names *)

\* C23: for every source segment file split_chapter writes (the files the
\* validators hand to _is_final_segment), whatever the chapter's title,
\* _is_final_segment is true of the file's name exactly when the index in
\* the name equals the count in the name.
C23_FinalByName ==
    \A w \in nmWritten : ~w.ro => (w.final <=> (w.idx = w.cnt))

-----------------------------------------------------------------------------
(* Claims about the ledger records and the chapter identifier *)

\* C24: every chapter record extract_chapters writes has status extracted
\* and no segment count and no segment word total of an earlier
\* segmentation, and the run leaves the segment files as they were.
C24_RecordsReset ==
    [][report'.op = "extract_chapters" =>
         /\ \A n \in 1..Len(AcceptedUnits(epub)) :
               /\ n \in DOMAIN log'.chapters
               /\ log'.chapters[n].status = "extracted"
               /\ "segments" \notin DOMAIN log'.chapters[n]
               /\ "segment_words" \notin DOMAIN log'.chapters[n]
         /\ en_segments' = en_segments
         /\ ro_segments' = ro_segments]_vars

\* chapter 1 has been extracted again after it was segmented
C24_Witness ==
    /\ report.op = "extract_chapters"
    /\ 1 \in DOMAIN log.chapters
    /\ log.chapters[1].status = "extracted"
    /\ \E f \in en_segments : f.num = 1
    /\ \E f \in ro_segments : f.num = 1

\* C25: split_chapter given an identifier the ledger does not hold fails with
\* "not found" and leaves every file and the ledger as they were.
C25_UnknownChapterFails ==
    [][(report'.op = "split_chapter" /\ report'.n \notin DOMAIN log.chapters) =>
         /\ report'.outcome = "not found"
         /\ en_segments' = en_segments
         /\ ro_segments' = ro_segments
         /\ en_chapters' = en_chapters
         /\ ro_chapters' = ro_chapters
         /\ log' = log]_vars

\* split_chapter has failed on an unknown identifier in a project that holds
\* segment files
C25_Witness ==
    /\ report.op = "split_chapter"
    /\ report.n \notin DOMAIN log.chapters
    /\ report.outcome = "not found"
    /\ en_segments # {}
    /\ ro_segments # {}

-----------------------------------------------------------------------------
(* Claims about runs that are repeated, stopped or overlapping *)

\* what a run of split_chapter for chapter n, run to its end, leaves of the
\* segment files and of the chapter's ledger record, from the state st
SplitResult(st, n) ==
    LET r == split_chapter(st, en_chapters, n)
    IN  [en |-> r.en, ro |-> r.ro, record |-> r.log.chapters[n]]

\* C26: after a run of split_chapter, completed or stopped between its first
\* file deletion and its ledger save, another run for the unchanged chapter
\* ends with the source segment files, the translated files and the ledger
\* record that a single run from the state before would have ended with.
C26_RerunSameAsOneRun ==
    [][(/\ report'.op = "split_chapter"
        /\ report'.outcome \in {"split", "stopped"}) =>
         SplitResult([en |-> en_segments', ro |-> ro_segments', log |-> log',
                      outcome |-> ""], report'.n)
           = SplitResult(ProjState, report'.n)]_vars

\* a run for a chapter that holds a translation was stopped while it wrote
\* the segments
C26_Witness ==
    /\ report.op = "split_chapter"
    /\ report.outcome = "stopped"
    /\ \E f \in ro_segments : f.num = report.n /\ f.kind = "real"
    /\ \E f \in en_segments : f.num = report.n
    /\ \E f \in ro_segments :
          /\ f.num = report.n
          /\ \A e \in en_segments : SegName(e) # SegName(f)

\* C27: a run replaces the whole ledger by the one it loaded at its start
\* with its own record updated, whatever other runs have saved meanwhile:
\* the records of the other chapters go back to what the run loaded, so that
\* of two overlapping runs for different chapters the last writer wins.
C27_LastWriterWins ==
    [][\A n \in ChapterNumbers :
         (runs[n].pc = "written" /\ runs'[n].pc = "done") =>
             /\ DOMAIN log'.chapters = DOMAIN runs[n].log.chapters
             /\ log'.chapters[n].status = "segmented"
             /\ \A m \in DOMAIN log'.chapters \ {n} :
                   log'.chapters[m] = runs[n].log.chapters[m]]_vars

\* two overlapping runs are over, the segment files of chapters 1 and 2 are
\* written and the ledger shows only one of the two chapters as segmented
C27_Witness ==
    /\ runs[1].pc = "done"
    /\ runs[2].pc = "done"
    /\ \E f \in en_segments : f.num = 1
    /\ \E f \in en_segments : f.num = 2
    /\ {1, 2} \subseteq DOMAIN log.chapters
    /\ log.chapters[1].status = "extracted"
    /\ log.chapters[2].status = "segmented"

-----------------------------------------------------------------------------
(* Claims about the translated files at a new segmentation *)

SplitOps == {"split_chapter", "split_all_chapters"}

\* C28: no run of split_chapter or split_all_chapters deletes or empties a
\* translated file that validate_translation_completeness counts as
\* translated (a non-zero word count once a leading comment header is
\* removed).
C28_ValidatorAndSplitAgree ==
    [][report'.op \in SplitOps =>
          \A f \in ro_segments :
              CountsAsTranslated(f.kind) => f \in ro_segments']_vars

\* C29: after split_chapter has completed for a chapter, the chapter's
\* translated segment files and its source segment files bear the same
\* names: one translated file for every source segment and no translated
\* file without a source segment.
C29_OneToOneNames ==
    (report.op = "split_chapter" /\ report.outcome = "split") =>
        {SegName(f) : f \in ChapterTranslations(report.n)}
            = {SegName(f) : f \in ChapterSegments(report.n)}

\* C30: no run of split_chapter or split_all_chapters deletes or overwrites
\* a translated segment file whose content it failed to read.
C30_UnreadableKept ==
    [][report'.op \in SplitOps =>
          \A f \in ro_segments : ReadRaises(f.kind) => f \in ro_segments']_vars

====
